---- MODULE Spec2Model ----
(***************************************************************************)
(* Court-booking servers of the BASKETBALL repository.                     *)
(*                                                                         *)
(* The repository holds several alternative implementations of the same    *)
(* booking logic; one of them runs at a time:                              *)
(*   "json"   src/server.js            (JSON-file server, /api/...)        *)
(*   "prod"   src/js/app.js 1077-2265  (production JSON server, /api/v1)   *)
(*   "sqlite" src/unnamed/part_002 + src/database/database.js              *)
(*   "static" src/js/app.js 1-1076     (localStorage BookingManager)       *)
(*   "local"  src/unnamed/part_002 from line 817 (in-memory test server)   *)
(*                                                                         *)
(* A time of day is the string "HH:MM"; it is modelled as the sequence of  *)
(* its characters, a digit as its value and ':' as Colon (its code unit    *)
(* follows that of '9'), so that JavaScript's string comparison is the     *)
(* lexicographic order StrLess below.                                      *)
(***************************************************************************)
EXTENDS Integers, Sequences, FiniteSets, TLC

VARIABLES
    server,     \* which implementation is running
    bookings,   \* data.bookings / the bookings table / BookingManager.bookings
    clock,      \* source of fresh identifiers (Date.now(), uuidv4())
    last,       \* the request handled last and its response
    inflight,   \* the asynchronous handlers suspended at an await
    users,      \* data.users
    sessions,   \* data.sessions
    now,        \* the wall clock (new Date()): days, hours in the SQLite server
    tz,         \* the server's time zone: hours east of UTC
    conn        \* the sqlite3 connection of Database: its rows and transaction

\* the state of the accounts and of the wall clock
authVars == <<users, sessions, now, tz, conn>>

vars ==
    <<server, bookings, clock, last, inflight, users, sessions, now, tz, conn>>

----------------------------------------------------------------------------
(* Bounds of the model *)

MaxBookings == 2

\* users registered
MaxRegistrations == 3

\* sessions opened by login
MaxSessions == 2

\* failed password attempts an account accumulates
MaxAttempts == 6

\* identifiers issued while accounts and bookings are created together
MaxIds == 3

\* the last day the wall clock reaches
MaxNow == 8

----------------------------------------------------------------------------
(* Strings *)

Colon == 10

RECURSIVE StrLess(_, _)
\* a < b on JavaScript strings
StrLess(a, b) ==
    IF b = <<>> THEN FALSE
    ELSE IF a = <<>> THEN TRUE
    ELSE IF a[1] # b[1] THEN a[1] < b[1]
    ELSE StrLess(Tail(a), Tail(b))

\* a >= b on JavaScript strings
StrGeq(a, b) == ~StrLess(a, b)

\* s.split(':')[0]
SplitHead(s) ==
    LET stops == {i \in 1..Len(s) : s[i] = Colon}
        cut == IF stops = {} THEN Len(s) + 1
               ELSE CHOOSE i \in stops : \A j \in stops : i <= j
    IN SubSeq(s, 1, cut - 1)

RECURSIVE parseInt(_)
\* parseInt of a non-empty string of decimal digits
parseInt(ds) ==
    IF ds = <<>> THEN 0
    ELSE parseInt(SubSeq(ds, 1, Len(ds) - 1)) * 10 + ds[Len(ds)]

\* hour.toString().padStart(2, '0') for 0 <= hour <= 99
padStart2(hour) == <<hour \div 10, hour % 10>>

\* `${hour.toString().padStart(2, '0')}:00`
TimeSlot(hour) == padStart2(hour) \o <<Colon, 0, 0>>

\* parseInt(time.split(':')[0])
HourOf(time) == parseInt(SplitHead(time))

----------------------------------------------------------------------------
(* Seed data and the requests the model sends *)

\* data.courts of initializeData: id -> pricePerHour (all courts are active)
courts ==
    [court_001 |-> 500, court_002 |-> 300]

CourtIds == DOMAIN courts

\* the authenticated users (req.user) and their roles
role ==
    [admin_001 |-> "admin", user_001 |-> "user", user_002 |-> "user"]

Actors == DOMAIN role

\* data.users of initializeData
seedUsers ==
    << [id |-> "admin_001", email |-> "admin@basketball.com", role |-> "admin"],
       [id |-> "user_001", email |-> "rahul@example.com", role |-> "user"],
       [id |-> "user_002", email |-> "priya@example.com", role |-> "user"] >>

\* users that send create requests
Bookers == {"user_001"}

\* "HH:MM"
Time(h, m) == padStart2(h) \o <<Colon>> \o padStart2(m)

\* requested courts: the seeded ones and an unknown id
ReqCourts == CourtIds \cup {"court_999"}

ReqDates == {"2026-03-10"}

\* requested [startTime, endTime): overlapping, adjacent, equal, a range at
\* the closing hour, a reversed one and one that is not hour-aligned
ReqRanges ==
    { <<Time(9, 0), Time(11, 0)>>, <<Time(9, 0), Time(10, 0)>>,
      <<Time(10, 0), Time(11, 0)>>, <<Time(22, 0), Time(23, 0)>>,
      <<Time(10, 0), Time(9, 0)>>, <<Time(23, 0), Time(23, 30)>> }

\* status values sent to the status-update endpoints
ReqStatuses == {"pending", "confirmed", "cancelled", "expired"}

\* booking ids a request may name: every id issued so far and an unknown one
ReqIds == 1..(MaxBookings + 1)

----------------------------------------------------------------------------
(* Shared helpers on the list of bookings *)

\* data.bookings.find(b => b.id === id): index of the first match, 0 if none
FindIndex(id) ==
    LET hits == {i \in 1..Len(bookings) : bookings[i].id = id}
    IN IF hits = {} THEN 0 ELSE CHOOSE i \in hits : \A j \in hits : i <= j

\* the authorization test with the role comparison inverted: a user who
\* does not own the booking passes, an admin who does not own it is refused
NotAuthorized_RoleInverted(booking, actor) ==
    booking.userId # actor /\ role[actor] = "admin"

\* booking.userId !== req.user.id && req.user.role !== 'admin'
NotAuthorized(booking, actor) ==
    booking.userId # actor /\ role[actor] # "admin"

----------------------------------------------------------------------------
(* JSON-file server: src/server.js *)

\* the same test over the bookings of the date on any court
isBooked_AnyCourt(courtId, date, timeSlot) ==
    \E i \in 1..Len(bookings) :
        /\ bookings[i].date = date
        /\ bookings[i].status # "cancelled"
        /\ StrGeq(timeSlot, bookings[i].startTime)
        /\ StrLess(timeSlot, bookings[i].endTime)

\* bookings.some(b => timeSlot >= b.startTime && timeSlot < b.endTime) over
\* the bookings of (courtId, date) that are not cancelled
isBooked(courtId, date, timeSlot) ==
    \E i \in 1..Len(bookings) :
        /\ bookings[i].courtId = courtId
        /\ bookings[i].date = date
        /\ bookings[i].status # "cancelled"
        /\ StrGeq(timeSlot, bookings[i].startTime)
        /\ StrLess(timeSlot, bookings[i].endTime)

RECURSIVE slotsFrom(_, _, _)
\* the loop for (hour; hour <= 22; hour++) of getAvailableSlots
slotsFrom(hour, courtId, date) ==
    IF hour > 22 THEN <<>>
    ELSE (IF isBooked(courtId, date, TimeSlot(hour)) THEN <<>>
          ELSE <<TimeSlot(hour)>>) \o slotsFrom(hour + 1, courtId, date)

\* getAvailableSlots(courtId, date)
getAvailableSlots(courtId, date) == slotsFrom(6, courtId, date)

\* the elements of a list
Elems(seq) == {seq[i] : i \in 1..Len(seq)}

\* requestedSlots of POST /api/bookings, as a set
requestedSlots(startTime, endTime) ==
    {TimeSlot(hour) : hour \in HourOf(startTime)..(HourOf(endTime) - 1)}

\* requestedSlots.every(slot => availableSlots.includes(slot))
isSlotAvailable(availableSlots, startTime, endTime) ==
    \A slot \in requestedSlots(startTime, endTime) :
        slot \in Elems(availableSlots)

\* POST /api/bookings
PostBooking(actor, courtId, date, startTime, endTime) ==
    LET req == [op |-> "create", courtId |-> courtId, date |-> date,
                startTime |-> startTime, endTime |-> endTime]
    IN
    /\ server = "json"
    /\ IF courtId \notin CourtIds
       THEN /\ last' = req @@ [code |-> 404, error |-> "Court not found"]
            /\ UNCHANGED <<bookings, clock>>
       ELSE IF ~isSlotAvailable(getAvailableSlots(courtId, date),
                                startTime, endTime)
       THEN /\ last' = req @@ [code |-> 400,
                               error |-> "Requested slot is not available"]
            /\ UNCHANGED <<bookings, clock>>
       ELSE LET hours == HourOf(endTime) - HourOf(startTime)
                booking == [id |-> clock + 1,
                            userId |-> actor,
                            courtId |-> courtId,
                            date |-> date,
                            startTime |-> startTime,
                            endTime |-> endTime,
                            status |-> "pending",
                            totalPrice |-> hours * courts[courtId]]
            IN /\ clock < MaxBookings
               /\ bookings' = Append(bookings, booking)
               /\ clock' = clock + 1
               /\ last' = req @@ [code |-> 200, error |-> "none"]
    /\ UNCHANGED <<server, inflight, authVars>>

\* PATCH /api/bookings/:id
PatchBooking(actor, id, status) ==
    LET req == [op |-> "patch", id |-> id, status |-> status]
        i == FindIndex(id)
    IN
    /\ server = "json"
    /\ IF i = 0
       THEN /\ last' = req @@ [code |-> 404, error |-> "Booking not found"]
            /\ UNCHANGED bookings
       ELSE IF NotAuthorized(bookings[i], actor)
       THEN /\ last' = req @@ [code |-> 403, error |-> "Not authorized"]
            /\ UNCHANGED bookings
       ELSE /\ bookings' = [bookings EXCEPT ![i].status = status]
            /\ last' = req @@ [code |-> 200, error |-> "none"]
    /\ UNCHANGED <<server, clock, inflight, authVars>>

----------------------------------------------------------------------------
(* JSON-file server, concurrent requests: authenticate and the handler of   *)
(* POST /api/bookings are synchronous functions (saveData is writeFileSync), *)
(* so a request in flight is handled from the court lookup to the response  *)
(* in one step of the event loop.                                            *)

\* the handler deciding on the slots that were free when the requests arrived
HandlePost_StaleCheck(p) ==
    LET h == inflight[p]
        req == [op |-> "create", courtId |-> h.courtId, date |-> h.date,
                startTime |-> h.startTime, endTime |-> h.endTime]
    IN
    /\ server = "json"
    /\ p \in DOMAIN inflight
    /\ h.pc = "start"
    /\ IF h.courtId \notin CourtIds
       THEN /\ last' = req @@ [code |-> 404, error |-> "Court not found"]
            /\ inflight' = [inflight EXCEPT ![p].pc = "done", ![p].code = 404]
            /\ UNCHANGED <<bookings, clock>>
       ELSE IF ~isSlotAvailable(slotsFrom(6, "none", h.date), h.startTime, h.endTime)
       THEN /\ last' = req @@ [code |-> 400,
                               error |-> "Requested slot is not available"]
            /\ inflight' = [inflight EXCEPT ![p].pc = "done", ![p].code = 400]
            /\ UNCHANGED <<bookings, clock>>
       ELSE LET hours == HourOf(h.endTime) - HourOf(h.startTime)
                booking == [id |-> clock + 1,
                            userId |-> h.userId,
                            courtId |-> h.courtId,
                            date |-> h.date,
                            startTime |-> h.startTime,
                            endTime |-> h.endTime,
                            status |-> "pending",
                            totalPrice |-> hours * courts[h.courtId]]
            IN /\ bookings' = Append(bookings, booking)
               /\ clock' = clock + 1
               /\ last' = req @@ [code |-> 200, error |-> "none"]
               /\ inflight' = [inflight EXCEPT ![p].pc = "done",
                                               ![p].code = 200,
                                               ![p].id = clock + 1]
    /\ UNCHANGED <<server, authVars>>

\* POST /api/bookings for the request p in flight
HandlePost(p) ==
    LET h == inflight[p]
        req == [op |-> "create", courtId |-> h.courtId, date |-> h.date,
                startTime |-> h.startTime, endTime |-> h.endTime]
    IN
    /\ server = "json"
    /\ p \in DOMAIN inflight
    /\ h.pc = "start"
    /\ IF h.courtId \notin CourtIds
       THEN /\ last' = req @@ [code |-> 404, error |-> "Court not found"]
            /\ inflight' = [inflight EXCEPT ![p].pc = "done", ![p].code = 404]
            /\ UNCHANGED <<bookings, clock>>
       ELSE IF ~isSlotAvailable(getAvailableSlots(h.courtId, h.date),
                                h.startTime, h.endTime)
       THEN /\ last' = req @@ [code |-> 400,
                               error |-> "Requested slot is not available"]
            /\ inflight' = [inflight EXCEPT ![p].pc = "done", ![p].code = 400]
            /\ UNCHANGED <<bookings, clock>>
       ELSE LET hours == HourOf(h.endTime) - HourOf(h.startTime)
                booking == [id |-> clock + 1,
                            userId |-> h.userId,
                            courtId |-> h.courtId,
                            date |-> h.date,
                            startTime |-> h.startTime,
                            endTime |-> h.endTime,
                            status |-> "pending",
                            totalPrice |-> hours * courts[h.courtId]]
            IN /\ bookings' = Append(bookings, booking)
               /\ clock' = clock + 1
               /\ last' = req @@ [code |-> 200, error |-> "none"]
               /\ inflight' = [inflight EXCEPT ![p].pc = "done",
                                               ![p].code = 200,
                                               ![p].id = clock + 1]
    /\ UNCHANGED <<server, authVars>>

----------------------------------------------------------------------------
(* JSON-file server, accounts and sessions: src/server.js                   *)
(* The wall clock counts days; an instant is stored as its ISO string, a    *)
(* fixed-width string of digits, and compared as a string.                  *)

\* 7 * 24 * 60 * 60 * 1000 ms, in days
SessionLife == 7

\* new Date(t).toISOString()
toISOString(t) == padStart2(t)

\* emails of the registration and login requests
ReqEmails == {"rahul@example.com", "new@example.com", "other@example.com"}

LoginEmails == {"admin@basketball.com", "rahul@example.com", "nobody@example.com"}

\* tokens a request may carry: 0 stands for a request without a token
ReqTokens == 0..MaxSessions

\* users a delete request may name
ReqUserIds == {"admin_001", "user_001", "user_999"}

\* days the wall clock advances by
Advances == {1, 6}

\* data.users.find(u => u.email === email): index of the first match, 0 if none
FindUserByEmail(email) ==
    LET hits == {i \in 1..Len(users) : users[i].email = email}
    IN IF hits = {} THEN 0 ELSE CHOOSE i \in hits : \A j \in hits : i <= j

\* data.users.findIndex(u => u.id === id), 0 if none
FindUserIndex(id) ==
    LET hits == {i \in 1..Len(users) : users[i].id = id}
    IN IF hits = {} THEN 0 ELSE CHOOSE i \in hits : \A j \in hits : i <= j

\* the sessions matched by authenticate:
\* s.token === token && s.expiresAt > new Date().toISOString()
validSessions(token) ==
    {s \in sessions : s.token = token /\ StrLess(toISOString(now), s.expiresAt)}

\* authenticate calls next()
authenticate(token) == token # 0 /\ validSessions(token) # {}

\* the response of authenticate when it does not call next()
authenticateError(token) ==
    IF token = 0 THEN "No token provided" ELSE "Invalid or expired token"

\* req.user of authenticate: index in data.users, 0 for undefined
reqUser(token) ==
    LET session == CHOOSE s \in validSessions(token) : TRUE
    IN FindUserIndex(session.userId)

\* the handlers that are suspended at await bcrypt.hash
Hashing == {p \in DOMAIN inflight : inflight[p].pc = "hash"}

\* POST /api/auth/register up to await bcrypt.hash: the duplicate check
RegisterCheck(p, email) ==
    LET req == [op |-> "register", email |-> email]
    IN
    /\ server = "json"
    /\ p \in DOMAIN inflight
    /\ inflight[p].pc = "idle"
    /\ IF FindUserByEmail(email) # 0
       THEN /\ last' = req @@ [code |-> 400, error |-> "Email already registered"]
            /\ UNCHANGED inflight
       ELSE /\ clock + Cardinality(Hashing) < MaxRegistrations
            /\ inflight' = [inflight EXCEPT ![p] = [pc |-> "hash", email |-> email]]
            /\ UNCHANGED last
    /\ UNCHANGED <<server, bookings, clock, users, sessions, now, tz, conn>>

\* POST /api/auth/register from await bcrypt.hash on: the insert
RegisterInsert(p) ==
    LET email == inflight[p].email
        user == [id |-> "user_" \o ToString(clock + 1),
                 email |-> email,
                 role |-> "user"]
    IN
    /\ server = "json"
    /\ p \in DOMAIN inflight
    /\ inflight[p].pc = "hash"
    /\ users' = Append(users, user)
    /\ clock' = clock + 1
    /\ inflight' = [inflight EXCEPT ![p] = [pc |-> "idle", email |-> "none"]]
    /\ last' = [op |-> "register", email |-> email, code |-> 200,
                error |-> "none"]
    /\ UNCHANGED <<server, bookings, sessions, now, tz, conn>>

\* POST /api/auth/login; passwordOk is the outcome of bcrypt.compare
Login(email, passwordOk) ==
    LET req == [op |-> "login", email |-> email]
        i == FindUserByEmail(email)
    IN
    /\ server = "json"
    /\ IF i = 0 \/ ~passwordOk
       THEN /\ last' = req @@ [code |-> 401, error |-> "Invalid credentials"]
            /\ UNCHANGED <<sessions, clock>>
       ELSE /\ clock < MaxSessions
            /\ sessions' = sessions \cup
                   {[token |-> clock + 1, userId |-> users[i].id,
                     expiresAt |-> toISOString(now + SessionLife)]}
            /\ clock' = clock + 1
            /\ last' = req @@ [code |-> 200, error |-> "none",
                               token |-> clock + 1]
    /\ UNCHANGED <<server, bookings, inflight, users, now, tz, conn>>

\* POST /api/auth/logout
Logout(token) ==
    /\ server = "json"
    /\ sessions' = {s \in sessions : s.token # token}
    /\ last' = [op |-> "logout", token |-> token, code |-> 200,
                error |-> "none"]
    /\ UNCHANGED <<server, bookings, clock, inflight, users, now, tz, conn>>

\* GET /api/auth/me behind authenticate; destructuring an undefined req.user
\* throws, which Express answers with 500
GetMe(token) ==
    LET req == [op |-> "me", token |-> token]
    IN
    /\ server = "json"
    /\ IF ~authenticate(token)
       THEN last' = req @@ [code |-> 401, error |-> authenticateError(token),
                            handler |-> FALSE]
       ELSE IF reqUser(token) = 0
       THEN last' = req @@ [code |-> 500, error |-> "TypeError",
                            handler |-> TRUE]
       ELSE last' = req @@ [code |-> 200, error |-> "none", handler |-> TRUE]
    /\ UNCHANGED <<server, bookings, clock, inflight, users, sessions, now, tz, conn>>

\* DELETE /api/admin/users/:id removing the user and keeping the bookings
DeleteUser_KeepsBookings(token, id) ==
    LET req == [op |-> "deleteUser", token |-> token, id |-> id]
        userIndex == FindUserIndex(id)
    IN
    /\ server = "json"
    /\ IF ~authenticate(token) \/ reqUser(token) = 0
          \/ users[reqUser(token)].role # "admin" \/ userIndex = 0
          \/ users[userIndex].role = "admin"
       THEN /\ last' = req @@ [code |-> 400, error |-> "rejected"]
            /\ UNCHANGED users
       ELSE /\ users' = [k \in 1..(Len(users) - 1) |->
                            IF k < userIndex THEN users[k] ELSE users[k + 1]]
            /\ last' = req @@ [code |-> 200, error |-> "none"]
    /\ UNCHANGED <<server, bookings, clock, inflight, sessions, now, tz, conn>>

\* DELETE /api/admin/users/:id behind authenticate
DeleteUser(token, id) ==
    LET req == [op |-> "deleteUser", token |-> token, id |-> id]
        userIndex == FindUserIndex(id)
    IN
    /\ server = "json"
    /\ IF ~authenticate(token)
       THEN /\ last' = req @@ [code |-> 401, error |-> authenticateError(token)]
            /\ UNCHANGED <<bookings, users>>
       ELSE IF reqUser(token) = 0
       THEN /\ last' = req @@ [code |-> 500, error |-> "TypeError"]
            /\ UNCHANGED <<bookings, users>>
       ELSE IF users[reqUser(token)].role # "admin"
       THEN /\ last' = req @@ [code |-> 403, error |-> "Admin access required"]
            /\ UNCHANGED <<bookings, users>>
       ELSE IF userIndex = 0
       THEN /\ last' = req @@ [code |-> 404, error |-> "User not found"]
            /\ UNCHANGED <<bookings, users>>
       ELSE IF users[userIndex].role = "admin"
       THEN /\ last' = req @@ [code |-> 400, error |-> "Cannot delete admin user"]
            /\ UNCHANGED <<bookings, users>>
       ELSE /\ bookings' = SelectSeq(bookings, LAMBDA b : b.userId # id)
            /\ users' = [k \in 1..(Len(users) - 1) |->
                            IF k < userIndex THEN users[k] ELSE users[k + 1]]
            /\ last' = req @@ [code |-> 200, error |-> "none"]
    /\ UNCHANGED <<server, clock, inflight, sessions, now, tz, conn>>

\* POST /api/bookings behind authenticate: the court lookup and the slot
\* test come before the first use of req.user, which throws inside the try
\* block when the user of the session is gone
PostBookingAs(token, courtId, date, startTime, endTime) ==
    LET req == [op |-> "create", token |-> token, courtId |-> courtId,
                date |-> date, startTime |-> startTime, endTime |-> endTime]
    IN
    /\ server = "json"
    /\ IF ~authenticate(token)
       THEN /\ last' = req @@ [code |-> 401, error |-> authenticateError(token)]
            /\ UNCHANGED <<bookings, clock>>
       ELSE IF courtId \notin CourtIds
       THEN /\ last' = req @@ [code |-> 404, error |-> "Court not found"]
            /\ UNCHANGED <<bookings, clock>>
       ELSE IF ~isSlotAvailable(getAvailableSlots(courtId, date),
                                startTime, endTime)
       THEN /\ last' = req @@ [code |-> 400,
                               error |-> "Requested slot is not available"]
            /\ UNCHANGED <<bookings, clock>>
       ELSE IF reqUser(token) = 0
       THEN /\ last' = req @@ [code |-> 500, error |-> "Booking failed"]
            /\ UNCHANGED <<bookings, clock>>
       ELSE LET hours == HourOf(endTime) - HourOf(startTime)
                booking == [id |-> clock + 1,
                            userId |-> users[reqUser(token)].id,
                            courtId |-> courtId,
                            date |-> date,
                            startTime |-> startTime,
                            endTime |-> endTime,
                            status |-> "pending",
                            totalPrice |-> hours * courts[courtId]]
            IN /\ clock < MaxIds
               /\ bookings' = Append(bookings, booking)
               /\ clock' = clock + 1
               /\ last' = req @@ [code |-> 200, error |-> "none"]
    /\ UNCHANGED <<server, inflight, authVars>>

\* PATCH /api/bookings/:id behind authenticate
PatchBookingAs(token, id, status) ==
    LET req == [op |-> "patch", token |-> token, id |-> id, status |-> status]
        i == FindIndex(id)
    IN
    /\ server = "json"
    /\ IF ~authenticate(token)
       THEN /\ last' = req @@ [code |-> 401, error |-> authenticateError(token)]
            /\ UNCHANGED bookings
       ELSE IF i = 0
       THEN /\ last' = req @@ [code |-> 404, error |-> "Booking not found"]
            /\ UNCHANGED bookings
       ELSE IF reqUser(token) = 0
       THEN /\ last' = req @@ [code |-> 500, error |-> "TypeError"]
            /\ UNCHANGED bookings
       ELSE IF /\ bookings[i].userId # users[reqUser(token)].id
               /\ users[reqUser(token)].role # "admin"
       THEN /\ last' = req @@ [code |-> 403, error |-> "Not authorized"]
            /\ UNCHANGED bookings
       ELSE /\ bookings' = [bookings EXCEPT ![i].status = status]
            /\ last' = req @@ [code |-> 200, error |-> "none"]
    /\ UNCHANGED <<server, clock, inflight, authVars>>

\* the wall clock advances
Tick(days) ==
    /\ server \in {"json", "sqlite", "static"}
    /\ now + days <= MaxNow
    /\ now' = now + days
    /\ UNCHANGED <<server, bookings, clock, last, inflight, users, sessions, tz, conn>>

----------------------------------------------------------------------------
(* Production JSON server: src/js/app.js, /api/v1 *)

\* /^\d{2}:\d{2}$/
matchesHHMM(time) ==
    /\ Len(time) = 5
    /\ time[3] = Colon
    /\ \A i \in {1, 2, 4, 5} : time[i] \in 0..9

\* the dates of the requests as days since 2026-01-01
DayNumber ==
    [d \in {"2026-01-01", "2026-03-09", "2026-03-10"} |->
        CASE d = "2026-01-01" -> 0
          [] d = "2026-03-09" -> 67
          [] d = "2026-03-10" -> 68]

\* the current calendar day of the server's local clock: 2026-03-09
Today == 67

\* new Date(date) < new Date().setHours(0, 0, 0, 0), in hours since
\* 2026-01-01T00:00Z: "YYYY-MM-DD" parses as midnight UTC, setHours gives
\* midnight of the current day in local time
isPastDate(date) == DayNumber[date] * 24 < Today * 24 - tz

\* the availability loop of POST /api/v1/bookings (the same loop as
\* getAvailableSlots of the JSON-file server)
availableSlotsV1(courtId, date) == slotsFrom(6, courtId, date)

\* startHour >= endHour || startHour < 6 || endHour > 22
invalidTimeRange(startHour, endHour) ==
    startHour >= endHour \/ startHour < 6 \/ endHour > 22

\* POST /api/v1/bookings
PostBookingV1(actor, courtId, date, startTime, endTime) ==
    LET req == [op |-> "create", courtId |-> courtId, date |-> date,
                startTime |-> startTime, endTime |-> endTime]
        startHour == HourOf(startTime)
        endHour == HourOf(endTime)
    IN
    /\ server = "prod"
    /\ IF ~matchesHHMM(startTime) \/ ~matchesHHMM(endTime)
       THEN /\ last' = req @@ [code |-> 400, error |-> "Validation failed"]
            /\ UNCHANGED <<bookings, clock>>
       ELSE IF isPastDate(date)
       THEN /\ last' = req @@ [code |-> 400,
                               error |-> "Cannot book for past dates"]
            /\ UNCHANGED <<bookings, clock>>
       ELSE IF courtId \notin CourtIds
       THEN /\ last' = req @@ [code |-> 404, error |-> "Court not found"]
            /\ UNCHANGED <<bookings, clock>>
       ELSE IF invalidTimeRange(startHour, endHour)
       THEN /\ last' = req @@ [code |-> 400, error |-> "Invalid time range"]
            /\ UNCHANGED <<bookings, clock>>
       ELSE IF ~isSlotAvailable(availableSlotsV1(courtId, date),
                                startTime, endTime)
       THEN /\ last' = req @@ [code |-> 400,
                               error |-> "Requested slots are not available"]
            /\ UNCHANGED <<bookings, clock>>
       ELSE LET hours == endHour - startHour
                booking == [id |-> clock + 1,
                            userId |-> actor,
                            courtId |-> courtId,
                            date |-> date,
                            startTime |-> startTime,
                            endTime |-> endTime,
                            status |-> "pending",
                            totalPrice |-> hours * courts[courtId]]
            IN /\ clock < MaxBookings
               /\ bookings' = Append(bookings, booking)
               /\ clock' = clock + 1
               /\ last' = req @@ [code |-> 201, error |-> "none"]
    /\ UNCHANGED <<server, inflight, authVars>>

\* body('status').isIn(['confirmed', 'cancelled', 'pending'])
StatusesV1 == {"confirmed", "cancelled", "pending"}

\* PATCH /api/v1/bookings/:id
PatchBookingV1(actor, id, status) ==
    LET req == [op |-> "patch", id |-> id, status |-> status]
        i == FindIndex(id)
    IN
    /\ server = "prod"
    /\ IF status \notin StatusesV1
       THEN /\ last' = req @@ [code |-> 400, error |-> "Validation failed"]
            /\ UNCHANGED bookings
       ELSE IF i = 0
       THEN /\ last' = req @@ [code |-> 404, error |-> "Booking not found"]
            /\ UNCHANGED bookings
       ELSE IF NotAuthorized(bookings[i], actor)
       THEN /\ last' = req @@ [code |-> 403, error |-> "Not authorized"]
            /\ UNCHANGED bookings
       ELSE /\ bookings' = [bookings EXCEPT ![i].status = status]
            /\ last' = req @@ [code |-> 200, error |-> "none"]
    /\ UNCHANGED <<server, clock, inflight, authVars>>

\* DELETE /api/v1/bookings/:id
DeleteBookingV1(actor, id) ==
    LET req == [op |-> "cancel", id |-> id]
        i == FindIndex(id)
    IN
    /\ server = "prod"
    /\ IF i = 0
       THEN /\ last' = req @@ [code |-> 404, error |-> "Booking not found"]
            /\ UNCHANGED bookings
       ELSE IF NotAuthorized(bookings[i], actor)
       THEN /\ last' = req @@ [code |-> 403, error |-> "Not authorized"]
            /\ UNCHANGED bookings
       ELSE /\ bookings' = [bookings EXCEPT ![i].status = "cancelled"]
            /\ last' = req @@ [code |-> 200, error |-> "none"]
    /\ UNCHANGED <<server, clock, inflight, authVars>>

----------------------------------------------------------------------------
(* SQLite server: src/unnamed/part_002 (routes), src/database/database.js  *)
(* A row of the bookings table is the same record, its columns user_id,    *)
(* court_id, start_time, end_time and total_price written userId, courtId, *)
(* startTime, endTime and totalPrice.                                      *)

\* Database.getBookingsByCourt(courtId, date): indices of the rows selected
getBookingsByCourt(courtId, date) ==
    {i \in 1..Len(bookings) :
        /\ bookings[i].courtId = courtId
        /\ bookings[i].date = date
        /\ bookings[i].status \in {"pending", "confirmed"}}

\* hasConflict with the test reduced to "the requested start lies inside an
\* existing booking": a request that begins earlier and runs into one passes
hasConflict_StartInside(courtId, date, start_time, end_time) ==
    \E i \in getBookingsByCourt(courtId, date) :
        /\ StrGeq(start_time, bookings[i].startTime)
        /\ StrLess(start_time, bookings[i].endTime)

\* existingBookings.some(booking =>
\*     start_time < booking.end_time && end_time > booking.start_time)
hasConflict(courtId, date, start_time, end_time) ==
    \E i \in getBookingsByCourt(courtId, date) :
        /\ StrLess(start_time, bookings[i].endTime)
        /\ StrLess(bookings[i].startTime, end_time)

\* minutes since midnight of new Date(`2000-01-01T${time}`)
MinutesOf(time) ==
    HourOf(time) * 60 + parseInt(SubSeq(time, Len(SplitHead(time)) + 2, Len(time)))

\* Math.round(court.price_per_hour * hours), hours = (endTime - startTime) / 3600000
total_price(price_per_hour, start_time, end_time) ==
    (2 * price_per_hour * (MinutesOf(end_time) - MinutesOf(start_time)) + 60)
        \div 120

\* the bookings table's uniqueness constraint on (court_id, date, start_time):
\* TRUE when the insert of such a row fails
UniqueConstraintFails(courtId, date, start_time) ==
    \E i \in 1..Len(bookings) :
        /\ bookings[i].courtId = courtId
        /\ bookings[i].date = date
        /\ bookings[i].startTime = start_time

\* Database.createBooking(bookingData): the row inserted
createBooking(id, user_id, court_id, date, start_time, end_time, price) ==
    [id |-> id,
     userId |-> user_id,
     courtId |-> court_id,
     date |-> date,
     startTime |-> start_time,
     endTime |-> end_time,
     status |-> "pending",
     totalPrice |-> price]

\* POST /api/bookings
PostBookingSql(actor, court_id, date, start_time, end_time) ==
    LET req == [op |-> "create", courtId |-> court_id, date |-> date,
                startTime |-> start_time, endTime |-> end_time]
    IN
    /\ server = "sqlite"
    /\ IF court_id \notin CourtIds
       THEN /\ last' = req @@ [code |-> 404, error |-> "Court not available"]
            /\ UNCHANGED <<bookings, clock>>
       ELSE IF hasConflict(court_id, date, start_time, end_time)
       THEN /\ last' = req @@ [code |-> 409,
                               error |-> "Court already booked for this time slot"]
            /\ UNCHANGED <<bookings, clock>>
       ELSE IF UniqueConstraintFails(court_id, date, start_time)
       THEN /\ last' = req @@ [code |-> 500,
                               error |-> "Failed to create booking"]
            /\ UNCHANGED <<bookings, clock>>
       ELSE /\ clock < MaxBookings
            /\ bookings' = Append(bookings,
                   createBooking(clock + 1, actor, court_id, date,
                                 start_time, end_time,
                                 total_price(courts[court_id],
                                             start_time, end_time)))
            /\ clock' = clock + 1
            /\ last' = req @@ [code |-> 201, error |-> "none"]
    /\ UNCHANGED <<server, inflight, authVars>>

\* Database.updateBookingStatus(bookingId, status): the table afterwards
updateBookingStatus(i, status) ==
    [bookings EXCEPT ![i].status = status]

\* PATCH /api/bookings/:id
PatchBookingSql(actor, id, status) ==
    LET req == [op |-> "patch", id |-> id, status |-> status]
        i == FindIndex(id)
    IN
    /\ server = "sqlite"
    /\ IF i = 0
       THEN /\ last' = req @@ [code |-> 404, error |-> "Booking not found"]
            /\ UNCHANGED bookings
       ELSE IF NotAuthorized(bookings[i], actor)
       THEN /\ last' = req @@ [code |-> 403, error |-> "Not authorized"]
            /\ UNCHANGED bookings
       ELSE /\ bookings' = updateBookingStatus(i, status)
            /\ last' = req @@ [code |-> 200, error |-> "none"]
    /\ UNCHANGED <<server, clock, inflight, authVars>>

----------------------------------------------------------------------------
(* Accounts of the production server (src/js/app.js from line 1077) and of  *)
(* the localStorage UserManager (src/js/app.js 360-585)                     *)

\* data.users of initializeData in the production server
prodUsers ==
    << [id |-> "admin_001", email |-> "admin@basketball.com", role |-> "admin"] >>

\* UserManager.users after ensureDefaultAdmin on an empty localStorage
defaultAdmin ==
    << [id |-> "admin_001", email |-> "admin@dribbleground.com", role |-> "admin"] >>

\* users a delete request may name: an admin, a seeded user, a registered
\* user and an unknown id
DeleteIds == ReqUserIds \cup {"user_1"}

\* the user ids carried by the access tokens of the production server
TokenUserIds == {"admin_001", "user_1"}

\* list.splice(index, 1)
splice(list, index) ==
    [k \in 1..(Len(list) - 1) |-> IF k < index THEN list[k] ELSE list[k + 1]]

\* POST /api/v1/auth/register up to await bcrypt.hash: the duplicate check
RegisterV1Check(p, email) ==
    LET req == [op |-> "register", email |-> email]
    IN
    /\ server = "prod"
    /\ p \in DOMAIN inflight
    /\ inflight[p].pc = "idle"
    /\ IF FindUserByEmail(email) # 0
       THEN /\ last' = req @@ [code |-> 400, error |-> "Email already registered"]
            /\ UNCHANGED inflight
       ELSE /\ clock + Cardinality(Hashing) < MaxRegistrations
            /\ inflight' = [inflight EXCEPT ![p] = [pc |-> "hash", email |-> email]]
            /\ UNCHANGED last
    /\ UNCHANGED <<server, bookings, clock, users, sessions, now, tz, conn>>

\* POST /api/v1/auth/register from await bcrypt.hash on: the insert
RegisterV1Insert(p) ==
    LET email == inflight[p].email
        user == [id |-> "user_" \o ToString(clock + 1),
                 email |-> email,
                 role |-> "user"]
    IN
    /\ server = "prod"
    /\ p \in DOMAIN inflight
    /\ inflight[p].pc = "hash"
    /\ users' = Append(users, user)
    /\ clock' = clock + 1
    /\ inflight' = [inflight EXCEPT ![p] = [pc |-> "idle", email |-> "none"]]
    /\ last' = [op |-> "register", email |-> email, code |-> 201,
                error |-> "none"]
    /\ UNCHANGED <<server, bookings, sessions, now, tz, conn>>

\* DELETE /api/v1/admin/users/:id behind authenticate and authorizeAdmin;
\* actor is the userId of the verified access token
DeleteUserV1(actor, id) ==
    LET req == [op |-> "deleteUser", id |-> id]
        userIndex == FindUserIndex(id)
    IN
    /\ server = "prod"
    /\ IF FindUserIndex(actor) = 0
       THEN /\ last' = req @@ [code |-> 401, error |-> "User not found or inactive"]
            /\ UNCHANGED <<bookings, users>>
       ELSE IF users[FindUserIndex(actor)].role # "admin"
       THEN /\ last' = req @@ [code |-> 403, error |-> "Admin access required"]
            /\ UNCHANGED <<bookings, users>>
       ELSE IF userIndex = 0
       THEN /\ last' = req @@ [code |-> 404, error |-> "User not found"]
            /\ UNCHANGED <<bookings, users>>
       ELSE IF users[userIndex].role = "admin"
       THEN /\ last' = req @@ [code |-> 400, error |-> "Cannot delete admin users"]
            /\ UNCHANGED <<bookings, users>>
       ELSE /\ bookings' = SelectSeq(bookings, LAMBDA b : b.userId # id)
            /\ users' = splice(users, userIndex)
            /\ last' = req @@ [code |-> 200, error |-> "none"]
    /\ UNCHANGED <<server, clock, inflight, sessions, now, tz, conn>>

\* UserManager.register(userData)
UmRegister(email) ==
    LET req == [op |-> "register", email |-> email]
        newUser == [id |-> "user_" \o ToString(clock + 1),
                    email |-> email,
                    role |-> "user"]
    IN
    /\ server = "static"
    /\ IF FindUserByEmail(email) # 0
       THEN /\ last' = req @@ [success |-> FALSE,
                   error |-> "An account with this email already exists"]
            /\ UNCHANGED <<users, clock>>
       ELSE /\ clock < MaxRegistrations
            /\ users' = Append(users, newUser)
            /\ clock' = clock + 1
            /\ last' = req @@ [success |-> TRUE, error |-> "none"]
    /\ UNCHANGED <<server, bookings, inflight, sessions, now, tz, conn>>

\* UserManager.deleteUser without the test of the role
UmDeleteUser_AnyRole(userId) ==
    LET req == [op |-> "deleteUser", id |-> userId]
        userIndex == FindUserIndex(userId)
    IN
    /\ server = "static"
    /\ IF userIndex = 0
       THEN /\ last' = req @@ [success |-> FALSE, error |-> "User not found"]
            /\ UNCHANGED users
       ELSE /\ users' = splice(users, userIndex)
            /\ last' = req @@ [success |-> TRUE, error |-> "none"]
    /\ UNCHANGED <<server, bookings, clock, inflight, sessions, now, tz, conn>>

\* UserManager.deleteUser(userId)
UmDeleteUser(userId) ==
    LET req == [op |-> "deleteUser", id |-> userId]
        userIndex == FindUserIndex(userId)
    IN
    /\ server = "static"
    /\ IF userIndex = 0
       THEN /\ last' = req @@ [success |-> FALSE, error |-> "User not found"]
            /\ UNCHANGED users
       ELSE IF users[userIndex].role = "admin"
       THEN /\ last' = req @@ [success |-> FALSE,
                               error |-> "Cannot delete admin account"]
            /\ UNCHANGED users
       ELSE /\ users' = splice(users, userIndex)
            /\ last' = req @@ [success |-> TRUE, error |-> "none"]
    /\ UNCHANGED <<server, bookings, clock, inflight, sessions, now, tz, conn>>

----------------------------------------------------------------------------
(* SQLite server, concurrent requests: POST /api/bookings is an async        *)
(* handler; between the SELECT of db.getBookingsByCourt and the INSERT of    *)
(* db.createBooking it is suspended at an await and other handlers run.      *)

\* the handlers that run concurrently
Procs == {1, 2}

\* the ranges the concurrent requests ask for
RaceRanges ==
    { <<Time(10, 0), Time(12, 0)>>, <<Time(11, 0), Time(13, 0)>>,
      <<Time(10, 0), Time(11, 0)>>, <<Time(12, 0), Time(13, 0)>> }

\* POST /api/bookings up to the await of db.createBooking: the court lookup,
\* the SELECT of the existing bookings and the conflict test
SqlReadBookings(p) ==
    LET h == inflight[p]
        req == [op |-> "create", courtId |-> h.courtId, date |-> h.date,
                startTime |-> h.startTime, endTime |-> h.endTime]
    IN
    /\ server = "sqlite"
    /\ p \in DOMAIN inflight
    /\ h.pc = "start"
    /\ IF h.courtId \notin CourtIds
       THEN /\ last' = req @@ [code |-> 404, error |-> "Court not available"]
            /\ inflight' = [inflight EXCEPT ![p].pc = "done", ![p].code = 404]
       ELSE IF hasConflict(h.courtId, h.date, h.startTime, h.endTime)
       THEN /\ last' = req @@ [code |-> 409,
                               error |-> "Court already booked for this time slot"]
            /\ inflight' = [inflight EXCEPT ![p].pc = "done", ![p].code = 409]
       ELSE /\ inflight' = [inflight EXCEPT ![p].pc = "insert"]
            /\ UNCHANGED last
    /\ UNCHANGED <<server, bookings, clock, authVars>>

\* POST /api/bookings from db.createBooking on: the INSERT and the response
SqlInsert(p) ==
    LET h == inflight[p]
        req == [op |-> "create", courtId |-> h.courtId, date |-> h.date,
                startTime |-> h.startTime, endTime |-> h.endTime]
    IN
    /\ server = "sqlite"
    /\ p \in DOMAIN inflight
    /\ h.pc = "insert"
    /\ IF UniqueConstraintFails(h.courtId, h.date, h.startTime)
       THEN /\ last' = req @@ [code |-> 500,
                               error |-> "Failed to create booking"]
            /\ inflight' = [inflight EXCEPT ![p].pc = "done", ![p].code = 500]
            /\ UNCHANGED <<bookings, clock>>
       ELSE /\ bookings' = Append(bookings,
                   createBooking(clock + 1, h.userId, h.courtId, h.date,
                                 h.startTime, h.endTime,
                                 total_price(courts[h.courtId],
                                             h.startTime, h.endTime)))
            /\ clock' = clock + 1
            /\ last' = req @@ [code |-> 201, error |-> "none"]
            /\ inflight' = [inflight EXCEPT ![p].pc = "done", ![p].code = 201,
                                            ![p].id = clock + 1]
    /\ UNCHANGED <<server, authVars>>

----------------------------------------------------------------------------
(* SQLite server, sessions: src/unnamed/part_002, src/database/database.js  *)
(* The wall clock counts hours. A row of the sessions table is created      *)
(* active (the test 'should implement secure session management' finds it   *)
(* right after login).                                                       *)

\* the code unit of ' ' lies below that of the digits
Space == 0 - 1

\* the code unit of 'T' lies above those of the digits and of ':'
Tee == 11

\* 60 * 60 * 1000 ms, in hours
SessionHours == 1

\* new Date(t).toISOString(): "DDThh", the day and the hour of t
isoDateTime(t) == padStart2(t \div 24) \o <<Tee>> \o padStart2(t % 24)

\* CURRENT_TIMESTAMP of SQLite: "DD hh"
CURRENT_TIMESTAMP == padStart2(now \div 24) \o <<Space>> \o padStart2(now % 24)

\* Database.getSessionByToken(token): the rows selected by
\* s.token = ? AND s.expires_at > CURRENT_TIMESTAMP AND s.is_active = TRUE,
\* joined with the users
getSessionByToken(token) ==
    {s \in sessions :
        /\ s.token = token
        /\ StrLess(CURRENT_TIMESTAMP, s.expiresAt)
        /\ s.is_active
        /\ FindUserIndex(s.userId) # 0}

\* authenticate of the SQLite server calls next()
authenticateSql(token) == token # 0 /\ getSessionByToken(token) # {}

\* POST /api/auth/login; passwordOk is the outcome of bcrypt.compare. The
\* counter of failed attempts and the lock are in LoginFind and LoginVerify.
LoginSql(email, passwordOk) ==
    LET req == [op |-> "login", email |-> email]
        i == FindUserByEmail(email)
    IN
    /\ server = "sqlite"
    /\ IF i = 0 \/ ~passwordOk
       THEN /\ last' = req @@ [code |-> 401, error |-> "Invalid email or password"]
            /\ UNCHANGED <<sessions, clock>>
       ELSE /\ clock < MaxSessions
            /\ sessions' = sessions \cup
                   {[token |-> clock + 1, userId |-> users[i].id,
                     expiresAt |-> isoDateTime(now + SessionHours),
                     is_active |-> TRUE]}
            /\ clock' = clock + 1
            /\ last' = req @@ [code |-> 200, error |-> "none",
                               token |-> clock + 1]
    /\ UNCHANGED <<server, bookings, inflight, users, now, tz, conn>>

\* Database.revokeSession(token): the table afterwards
revokeSession(token) ==
    {IF s.token = token THEN [s EXCEPT !.is_active = FALSE] ELSE s : s \in sessions}

\* POST /api/auth/logout behind authenticate
LogoutSql(token) ==
    LET req == [op |-> "logout", token |-> token]
    IN
    /\ server = "sqlite"
    /\ IF ~authenticateSql(token)
       THEN /\ last' = req @@ [code |-> 401, error |-> authenticateError(token)]
            /\ UNCHANGED sessions
       ELSE /\ sessions' = revokeSession(token)
            /\ last' = req @@ [code |-> 200, error |-> "none"]
    /\ UNCHANGED <<server, bookings, clock, inflight, users, now, tz, conn>>

\* GET /api/bookings/my behind authenticate
GetMyBookings(token) ==
    LET req == [op |-> "my", token |-> token]
    IN
    /\ server = "sqlite"
    /\ IF ~authenticateSql(token)
       THEN last' = req @@ [code |-> 401, error |-> authenticateError(token),
                            handler |-> FALSE]
       ELSE last' = req @@ [code |-> 200, error |-> "none", handler |-> TRUE]
    /\ UNCHANGED <<server, bookings, clock, inflight, users, sessions, now, tz, conn>>

----------------------------------------------------------------------------
(* SQLite server, account lockout: POST /api/auth/login of                  *)
(* src/unnamed/part_002, one step per stretch between awaits. Here the wall *)
(* clock counts half hours, and locked_until is <<>> for NULL.              *)

\* 30 * 60 * 1000 ms, in half hours
LOCK_HALF_HOURS == 1

\* 60 * 60 * 1000 ms, in half hours
SESSION_HALF_HOURS == 2

\* the users table: the seeded accounts, login_attempts 0, locked_until NULL
sqlUsers ==
    [i \in 1..Len(seedUsers) |->
        seedUsers[i] @@ [login_attempts |-> 0, locked_until |-> <<>>]]

\* emails of the login requests: a seeded account and an unknown one
LockEmails == {"rahul@example.com", "nobody@example.com"}

\* user.locked_until && new Date(user.locked_until) > new Date()
isLocked(user) ==
    user.locked_until # <<>> /\ parseInt(user.locked_until) > now

\* POST /api/auth/login up to await bcrypt.compare: db.getUserByEmail and
\* the lock check
LoginFind(p, email) ==
    LET req == [op |-> "login", email |-> email]
        i == FindUserByEmail(email)
    IN
    /\ server = "sqlite"
    /\ p \in DOMAIN inflight
    /\ inflight[p].pc = "idle"
    /\ IF i = 0
       THEN /\ last' = req @@ [code |-> 401, error |-> "Invalid email or password"]
            /\ UNCHANGED inflight
       ELSE IF isLocked(users[i])
       THEN /\ last' = req @@ [code |-> 423, error |-> "Account temporarily locked"]
            /\ UNCHANGED inflight
       ELSE /\ inflight' = [inflight EXCEPT ![p] =
                   [pc |-> "compare", email |-> email,
                    login_attempts |-> users[i].login_attempts]]
            /\ UNCHANGED last
    /\ UNCHANGED <<server, bookings, clock, users, sessions, now, tz, conn>>

\* POST /api/auth/login from the outcome of bcrypt.compare on: the user
\* object read by LoginFind decides the lock, the table is updated in place
LoginVerify(p, passwordOk) ==
    LET h == inflight[p]
        req == [op |-> "login", email |-> h.email]
        i == FindUserByEmail(h.email)
    IN
    /\ server = "sqlite"
    /\ p \in DOMAIN inflight
    /\ h.pc = "compare"
    /\ IF ~passwordOk
       THEN /\ users[i].login_attempts < MaxAttempts
            /\ users' = [users EXCEPT
                   ![i].login_attempts = @ + 1,
                   ![i].locked_until =
                       IF h.login_attempts >= 4
                       THEN toISOString(now + LOCK_HALF_HOURS) ELSE @]
            /\ last' = req @@ [code |-> 401, error |-> "Invalid email or password"]
            /\ UNCHANGED <<sessions, clock>>
       ELSE /\ clock < MaxSessions
            /\ users' = [users EXCEPT ![i].login_attempts = 0]
            /\ sessions' = sessions \cup
                   {[token |-> clock + 1, userId |-> users[i].id,
                     expiresAt |-> toISOString(now + SESSION_HALF_HOURS),
                     is_active |-> TRUE]}
            /\ clock' = clock + 1
            /\ last' = req @@ [code |-> 200, error |-> "none",
                               token |-> clock + 1]
    /\ inflight' = [inflight EXCEPT ![p] =
           [pc |-> "idle", email |-> "", login_attempts |-> 0]]
    /\ UNCHANGED <<server, bookings, now, tz, conn>>

----------------------------------------------------------------------------
(* Database.transaction: src/database/database.js                          *)
(* One sqlite3 connection (this.db) serves every caller. conn.rows is what  *)
(* the connection reads, conn.open tells whether BEGIN TRANSACTION has run  *)
(* without its COMMIT or ROLLBACK, conn.saved is what ROLLBACK restores. A  *)
(* statement is the primary key of the row it inserts, or InvalidTable.     *)

\* this.db right after initialize(): no transaction is open
Autocommit == [rows |-> {}, saved |-> {}, open |-> FALSE]

\* the callers of transaction(callback), and one caller of run() alone
TxProcs == {1, 2}
Writer == 3
DbProcs == TxProcs \cup {Writer}

\* INSERT INTO invalid_table (id) VALUES (?)
InvalidTable == 0

\* the rows caller p inserts
RowsOf(p) == {10 * p + 1, 10 * p + 2}

\* the callbacks handed to transaction(): the awaited statements, in order
Callbacks(p) ==
    { <<10 * p + 1>>, <<10 * p + 1, 10 * p + 2>>,
      <<10 * p + 1, InvalidTable>>, <<InvalidTable>> }

\* what is on disk for good: the rows no ROLLBACK can remove
Committed == IF conn.open THEN conn.saved ELSE conn.rows

\* this.db.run(sql) fails: no such table, or the primary key exists
StatementFails(stmt) == stmt = InvalidTable \/ stmt \in conn.rows

\* ROLLBACK without restoring the rows
transactionRollback_KeepsRows(p) ==
    /\ server = "sqlite"
    /\ p \in DOMAIN inflight
    /\ inflight[p].pc = "rollback"
    /\ conn' = [conn EXCEPT !.saved = {}, !.open = FALSE]
    /\ inflight' = [inflight EXCEPT ![p].pc = "rejected"]
    /\ UNCHANGED <<server, bookings, clock, last, users, sessions, now, tz>>

\* transaction(callback): this.db.run('BEGIN TRANSACTION', ...)
transactionBegin(p, callback) ==
    /\ server = "sqlite"
    /\ p \in DOMAIN inflight
    /\ inflight[p].pc = "idle"
    /\ IF conn.open
       THEN \* cannot start a transaction within a transaction: reject(err)
            /\ inflight' = [inflight EXCEPT ![p].pc = "rejected"]
            /\ UNCHANGED conn
       ELSE /\ conn' = [conn EXCEPT !.saved = conn.rows, !.open = TRUE]
            /\ inflight' = [inflight EXCEPT ![p].pc = "callback",
                                            ![p].todo = callback]
    /\ UNCHANGED <<server, bookings, clock, last, users, sessions, now, tz>>

\* await callback(this): the next awaited db.run of the callback
callbackRun(p) ==
    /\ server = "sqlite"
    /\ p \in DOMAIN inflight
    /\ inflight[p].pc = "callback"
    /\ inflight[p].todo # <<>>
    /\ LET stmt == Head(inflight[p].todo)
       IN IF StatementFails(stmt)
          THEN /\ inflight' = [inflight EXCEPT ![p].pc = "rollback"]
               /\ UNCHANGED conn
          ELSE /\ conn' = [conn EXCEPT !.rows = @ \cup {stmt}]
               /\ inflight' = [inflight EXCEPT
                      ![p].todo = Tail(@),
                      ![p].written = @ \cup {stmt}]
    /\ UNCHANGED <<server, bookings, clock, last, users, sessions, now, tz>>

\* the callback resolved: this.db.run('COMMIT', ...)
transactionCommit(p) ==
    /\ server = "sqlite"
    /\ p \in DOMAIN inflight
    /\ inflight[p].pc = "callback"
    /\ inflight[p].todo = <<>>
    /\ IF conn.open
       THEN /\ conn' = [conn EXCEPT !.saved = {}, !.open = FALSE]
            /\ inflight' = [inflight EXCEPT ![p].pc = "resolved"]
       ELSE \* cannot commit - no transaction is active: reject(commitErr)
            /\ inflight' = [inflight EXCEPT ![p].pc = "rejected"]
            /\ UNCHANGED conn
    /\ UNCHANGED <<server, bookings, clock, last, users, sessions, now, tz>>

\* the callback rejected: this.db.run('ROLLBACK', ...), then reject(error)
transactionRollback(p) ==
    /\ server = "sqlite"
    /\ p \in DOMAIN inflight
    /\ inflight[p].pc = "rollback"
    /\ IF conn.open
       THEN conn' = [rows |-> conn.saved, saved |-> {}, open |-> FALSE]
       ELSE UNCHANGED conn
    /\ inflight' = [inflight EXCEPT ![p].pc = "rejected"]
    /\ UNCHANGED <<server, bookings, clock, last, users, sessions, now, tz>>

\* run(sql, params) called by an operation that opened no transaction
run(p, stmt) ==
    /\ server = "sqlite"
    /\ p \in DOMAIN inflight
    /\ inflight[p].pc = "idle"
    /\ IF StatementFails(stmt)
       THEN /\ inflight' = [inflight EXCEPT ![p].pc = "rejected"]
            /\ UNCHANGED conn
       ELSE /\ conn' = [conn EXCEPT !.rows = @ \cup {stmt}]
            /\ inflight' = [inflight EXCEPT ![p].pc = "resolved",
                                            ![p].written = {stmt}]
    /\ UNCHANGED <<server, bookings, clock, last, users, sessions, now, tz>>

----------------------------------------------------------------------------
(* Local in-memory server: src/unnamed/part_002 from line 817, /api/v1      *)
(* Its bookings have the same record, booking_date written date.            *)

\* db.courts: id -> price_per_hour
localCourts == ("court-001" :> 50) @@ ("court-002" :> 60)

\* requested courts: the seeded ones and an unknown id
ReqLocalCourts == DOMAIN localCourts \cup {"court-999"}

\* db.bookings.find(b => b.court_id === court_id &&
\*     b.booking_date === booking_date && b.start_time === start_time &&
\*     b.status === 'confirmed') finds a booking
conflict(court_id, booking_date, start_time) ==
    \E i \in 1..Len(bookings) :
        /\ bookings[i].courtId = court_id
        /\ bookings[i].date = booking_date
        /\ bookings[i].startTime = start_time
        /\ bookings[i].status = "confirmed"

\* POST /api/v1/bookings (every field of the request is present)
PostBookingLocal(actor, court_id, booking_date, start_time, end_time) ==
    LET req == [op |-> "create", courtId |-> court_id, date |-> booking_date,
                startTime |-> start_time, endTime |-> end_time]
    IN
    /\ server = "local"
    /\ IF court_id \notin DOMAIN localCourts
       THEN /\ last' = req @@ [code |-> 404, error |-> "Court not found"]
            /\ UNCHANGED <<bookings, clock>>
       ELSE IF conflict(court_id, booking_date, start_time)
       THEN /\ last' = req @@ [code |-> 409, error |-> "Time slot already booked"]
            /\ UNCHANGED <<bookings, clock>>
       ELSE LET hours == HourOf(end_time) - HourOf(start_time)
                booking == [id |-> clock + 1,
                            userId |-> actor,
                            courtId |-> court_id,
                            date |-> booking_date,
                            startTime |-> start_time,
                            endTime |-> end_time,
                            status |-> "confirmed",
                            totalPrice |-> localCourts[court_id] * hours]
            IN /\ clock < MaxBookings
               /\ bookings' = Append(bookings, booking)
               /\ clock' = clock + 1
               /\ last' = req @@ [code |-> 201, error |-> "none"]
    /\ UNCHANGED <<server, inflight, authVars>>

\* DELETE /api/v1/bookings/:bookingId
DeleteBookingLocal(actor, bookingId) ==
    LET req == [op |-> "cancel", id |-> bookingId]
        i == FindIndex(bookingId)
    IN
    /\ server = "local"
    /\ IF i = 0
       THEN /\ last' = req @@ [code |-> 404, error |-> "Booking not found"]
            /\ UNCHANGED bookings
       ELSE IF NotAuthorized(bookings[i], actor)
       THEN /\ last' = req @@ [code |-> 403, error |-> "Not authorized"]
            /\ UNCHANGED bookings
       ELSE /\ bookings' = [bookings EXCEPT ![i].status = "cancelled"]
            /\ last' = req @@ [code |-> 200, error |-> "none"]
    /\ UNCHANGED <<server, clock, inflight, authVars>>

\* a field missing from the body of a PUT (undefined is falsy, as is "")
Absent == <<>>

\* PUT /api/v1/bookings/:bookingId
PutBookingLocal(actor, bookingId, start_time, end_time, booking_date) ==
    LET req == [op |-> "update", id |-> bookingId]
        i == FindIndex(bookingId)
    IN
    /\ server = "local"
    /\ IF i = 0
       THEN /\ last' = req @@ [code |-> 404, error |-> "Booking not found"]
            /\ UNCHANGED bookings
       ELSE IF NotAuthorized(bookings[i], actor)
       THEN /\ last' = req @@ [code |-> 403, error |-> "Not authorized"]
            /\ UNCHANGED bookings
       ELSE /\ bookings' = [bookings EXCEPT
                ![i].startTime = IF start_time # Absent THEN start_time ELSE @,
                ![i].endTime = IF end_time # Absent THEN end_time ELSE @,
                ![i].date = IF booking_date # "" THEN booking_date ELSE @]
            /\ last' = req @@ [code |-> 200, error |-> "none"]
    /\ UNCHANGED <<server, clock, inflight, authVars>>

----------------------------------------------------------------------------
(* Static variant: BookingManager of src/js/app.js (localStorage)          *)

\* CONFIG.PRICING
PRICING == [weekly |-> 200, monthly |-> 500]

ReqTypes == DOMAIN PRICING

ReqMonths == {"2026-03"}

\* players of a request; 0 stands for a request without players
ReqPlayers == {0, 6}

ReqTransactions == {"TXN_1"}

\* CONFIG.PAYMENT_TIMEOUT_HOURS * 60 * 60 * 1000 ms, in days
PAYMENT_TIMEOUT_DAYS == 1

RECURSIVE insertByCreatedAt(_, _)
\* b put into a list sorted by (a, b) => new Date(b.createdAt) -
\* new Date(a.createdAt), after the elements it does not precede
insertByCreatedAt(b, sorted) ==
    IF sorted = <<>> THEN <<b>>
    ELSE IF parseInt(b.createdAt) - parseInt(Head(sorted).createdAt) > 0
    THEN <<b>> \o sorted
    ELSE <<Head(sorted)>> \o insertByCreatedAt(b, Tail(sorted))

RECURSIVE sortByCreatedAt(_)
\* Array.prototype.sort with that comparator (a stable sort)
sortByCreatedAt(list) ==
    IF list = <<>> THEN <<>>
    ELSE insertByCreatedAt(list[Len(list)],
                           sortByCreatedAt(SubSeq(list, 1, Len(list) - 1)))

\* players || 1
playersOrOne(players) == IF players = 0 THEN 1 ELSE players

\* BookingManager.createBooking(bookingData)
BmCreateBooking(userId, type, month, players) ==
    LET pricePerPlayer == IF type = "weekly" THEN PRICING.weekly
                          ELSE PRICING.monthly
        newBooking == [id |-> clock + 1,
                       userId |-> userId,
                       type |-> type,
                       month |-> month,
                       players |-> playersOrOne(players),
                       amount |-> pricePerPlayer * playersOrOne(players),
                       status |-> "pending",
                       paymentId |-> "null",
                       createdAt |-> toISOString(now),
                       confirmedAt |-> "null",
                       expiresAt |-> toISOString(now + PAYMENT_TIMEOUT_DAYS)]
    IN
    /\ server = "static"
    /\ clock < MaxBookings
    /\ bookings' = Append(bookings, newBooking)
    /\ clock' = clock + 1
    /\ last' = [op |-> "create", id |-> clock + 1, success |-> TRUE,
                error |-> "none"]
    /\ UNCHANGED <<server, inflight, authVars>>

\* BookingManager.confirmPayment(bookingId, transactionId)
confirmPayment(bookingId, transactionId) ==
    LET bookingIndex == FindIndex(bookingId)
        req == [op |-> "confirm", id |-> bookingId]
    IN
    /\ server = "static"
    /\ IF bookingIndex = 0
       THEN /\ last' = req @@ [success |-> FALSE, error |-> "Booking not found"]
            /\ UNCHANGED bookings
       ELSE /\ bookings' = [bookings EXCEPT
                               ![bookingIndex].status = "confirmed",
                               ![bookingIndex].paymentId = transactionId,
                               ![bookingIndex].confirmedAt = "set"]
            /\ last' = req @@ [success |-> TRUE, error |-> "none"]
    /\ UNCHANGED <<server, clock, inflight, authVars>>

\* BookingManager.adminConfirmBooking(bookingId)
adminConfirmBooking(bookingId) ==
    LET bookingIndex == FindIndex(bookingId)
        req == [op |-> "confirm", id |-> bookingId]
    IN
    /\ server = "static"
    /\ IF bookingIndex = 0
       THEN /\ last' = req @@ [success |-> FALSE, error |-> "Booking not found"]
            /\ UNCHANGED bookings
       ELSE /\ bookings' = [bookings EXCEPT
                               ![bookingIndex].status = "confirmed",
                               ![bookingIndex].confirmedAt = "set"]
            /\ last' = req @@ [success |-> TRUE, error |-> "none"]
    /\ UNCHANGED <<server, clock, inflight, authVars>>

\* BookingManager.cancelBooking(bookingId)
cancelBooking(bookingId) ==
    LET bookingIndex == FindIndex(bookingId)
        req == [op |-> "cancel", id |-> bookingId]
    IN
    /\ server = "static"
    /\ IF bookingIndex = 0
       THEN /\ last' = req @@ [success |-> FALSE, error |-> "Booking not found"]
            /\ UNCHANGED bookings
       ELSE /\ bookings' = [bookings EXCEPT ![bookingIndex].status = "cancelled"]
            /\ last' = req @@ [success |-> TRUE, error |-> "none"]
    /\ UNCHANGED <<server, clock, inflight, authVars>>

\* BookingManager.getAllBookings(): sorts this.bookings in place, newest
\* first, and returns it
getAllBookings ==
    /\ server = "static"
    /\ bookings' = sortByCreatedAt(bookings)
    /\ last' = [op |-> "read", success |-> TRUE, error |-> "none"]
    /\ UNCHANGED <<server, clock, inflight, authVars>>

----------------------------------------------------------------------------
(* Specification *)

Servers == {"json", "prod", "sqlite", "static", "local"}

\* the servers that book courts by the hour
CourtServers == {"json", "prod", "sqlite"}

\* no handler is suspended, the accounts are the seeded ones
Quiet ==
    /\ inflight = <<>>
    /\ users = seedUsers
    /\ sessions = {}
    /\ now = 0
    /\ tz = 0
    /\ conn = Autocommit

Init ==
    /\ server \in Servers
    /\ bookings = <<>>
    /\ clock = 0
    /\ last = [op |-> "none", error |-> "none"]
    /\ Quiet

Next ==
    \/ \E actor \in Bookers, courtId \in ReqCourts, date \in ReqDates,
          range \in ReqRanges :
          PostBooking(actor, courtId, date, range[1], range[2])
    \/ \E actor \in Actors, id \in ReqIds, status \in ReqStatuses :
          PatchBooking(actor, id, status)
    \/ \E actor \in Bookers, courtId \in ReqCourts, date \in ReqDates,
          range \in ReqRanges :
          PostBookingV1(actor, courtId, date, range[1], range[2])
    \/ \E actor \in Actors, id \in ReqIds, status \in ReqStatuses :
          PatchBookingV1(actor, id, status)
    \/ \E actor \in Actors, id \in ReqIds :
          DeleteBookingV1(actor, id)
    \/ \E actor \in Bookers, courtId \in ReqCourts, date \in ReqDates,
          range \in ReqRanges :
          PostBookingSql(actor, courtId, date, range[1], range[2])
    \/ \E actor \in Actors, id \in ReqIds, status \in ReqStatuses :
          PatchBookingSql(actor, id, status)
    \/ \E userId \in Bookers, type \in ReqTypes, month \in ReqMonths,
          players \in ReqPlayers :
          BmCreateBooking(userId, type, month, players)
    \/ \E id \in ReqIds, transactionId \in ReqTransactions :
          confirmPayment(id, transactionId)
    \/ \E id \in ReqIds : adminConfirmBooking(id)
    \/ \E id \in ReqIds : cancelBooking(id)
    \/ \E actor \in Bookers, court_id \in ReqLocalCourts, date \in ReqDates,
          range \in ReqRanges :
          PostBookingLocal(actor, court_id, date, range[1], range[2])
    \/ \E actor \in Actors, id \in ReqIds : DeleteBookingLocal(actor, id)

Spec == Init /\ [][Next]_vars

\* the local in-memory server alone, with its update endpoint
InitLocal ==
    /\ server = "local"
    /\ bookings = <<>>
    /\ clock = 0
    /\ last = [op |-> "none", error |-> "none"]
    /\ Quiet

NextLocal ==
    \/ \E actor \in Bookers, court_id \in ReqLocalCourts, date \in ReqDates,
          range \in ReqRanges :
          PostBookingLocal(actor, court_id, date, range[1], range[2])
    \/ \E actor \in Actors, id \in ReqIds, start_time \in {Absent, Time(9, 0)},
          end_time \in {Absent, Time(11, 0)} :
          PutBookingLocal(actor, id, start_time, end_time, "")
    \/ \E actor \in Actors, id \in ReqIds : DeleteBookingLocal(actor, id)

SpecLocal == InitLocal /\ [][NextLocal]_vars

\* two callers of Database.transaction and one of Database.run on one
\* Database instance
InitTxn ==
    /\ server = "sqlite"
    /\ bookings = <<>>
    /\ clock = 0
    /\ last = [op |-> "none", error |-> "none"]
    /\ inflight = [p \in DbProcs |->
                      [pc |-> "idle", todo |-> <<>>, written |-> {}]]
    /\ users = seedUsers
    /\ sessions = {}
    /\ now = 0
    /\ tz = 0
    /\ conn = Autocommit

NextTxn ==
    \/ \E p \in TxProcs : \E callback \in Callbacks(p) :
          transactionBegin(p, callback)
    \/ \E p \in TxProcs : callbackRun(p)
    \/ \E p \in TxProcs : transactionCommit(p)
    \/ \E p \in TxProcs : transactionRollback(p)
    \/ \E stmt \in RowsOf(Writer) : run(Writer, stmt)

SpecTxn == InitTxn /\ [][NextTxn]_vars

\* two login requests at a time in the SQLite server, the wall clock running
InitLockout ==
    /\ server = "sqlite"
    /\ bookings = <<>>
    /\ clock = 0
    /\ last = [op |-> "none", error |-> "none"]
    /\ inflight = [p \in Procs |->
                      [pc |-> "idle", email |-> "", login_attempts |-> 0]]
    /\ users = sqlUsers
    /\ sessions = {}
    /\ now = 0
    /\ tz = 0
    /\ conn = Autocommit

NextLockout ==
    \/ \E p \in Procs, email \in LockEmails : LoginFind(p, email)
    \/ \E p \in Procs, passwordOk \in BOOLEAN : LoginVerify(p, passwordOk)
    \/ \E halfHours \in {1} : Tick(halfHours)

SpecLockout == InitLockout /\ [][NextLockout]_vars

\* the JSON-file server taking bookings for two dates
FrameDates == {"2026-03-10", "2026-03-11"}

\* an enclosing and an enclosed range
FrameRanges ==
    { <<Time(9, 0), Time(11, 0)>>, <<Time(10, 0), Time(11, 0)>> }

InitFrame ==
    /\ server = "json"
    /\ bookings = <<>>
    /\ clock = 0
    /\ last = [op |-> "none", error |-> "none"]
    /\ Quiet

NextFrame ==
    \/ \E actor \in Bookers, courtId \in ReqCourts, date \in FrameDates,
          range \in FrameRanges :
          PostBooking(actor, courtId, date, range[1], range[2])
    \/ \E actor \in Actors, id \in ReqIds,
          status \in {"confirmed", "cancelled"} :
          PatchBooking(actor, id, status)

SpecFrame == InitFrame /\ [][NextFrame]_vars

\* two POST /api/bookings requests in flight in the JSON-file server
InitJsonRace ==
    /\ server = "json"
    /\ bookings = <<>>
    /\ clock = 0
    /\ last = [op |-> "none", error |-> "none"]
    /\ inflight \in [Procs -> [pc : {"start"}, code : {0}, id : {0},
                               userId : Bookers, courtId : ReqCourts,
                               date : ReqDates,
                               startTime : {r[1] : r \in RaceRanges},
                               endTime : {r[2] : r \in RaceRanges}]]
    /\ \A p \in Procs :
          <<inflight[p].startTime, inflight[p].endTime>> \in RaceRanges
    /\ users = seedUsers
    /\ sessions = {}
    /\ now = 0
    /\ tz = 0
    /\ conn = Autocommit

NextJsonRace == \E p \in Procs : HandlePost(p)

SpecJsonRace == InitJsonRace /\ [][NextJsonRace]_vars

\* two POST /api/bookings requests in flight in the SQLite server
InitRace ==
    /\ server = "sqlite"
    /\ bookings = <<>>
    /\ clock = 0
    /\ last = [op |-> "none", error |-> "none"]
    /\ inflight \in [Procs -> [pc : {"start"}, code : {0}, id : {0},
                               userId : Bookers, courtId : ReqCourts,
                               date : ReqDates,
                               startTime : {r[1] : r \in RaceRanges},
                               endTime : {r[2] : r \in RaceRanges}]]
    /\ \A p \in Procs :
          <<inflight[p].startTime, inflight[p].endTime>> \in RaceRanges
    /\ users = seedUsers
    /\ sessions = {}
    /\ now = 0
    /\ tz = 0
    /\ conn = Autocommit

NextRace ==
    \/ \E p \in Procs : SqlReadBookings(p)
    \/ \E p \in Procs : SqlInsert(p)

SpecRace == InitRace /\ [][NextRace]_vars

\* the dates of the create requests: a past day, the current day, a later day
DateReqs == {"2026-01-01", "2026-03-09", "2026-03-10"}

\* the time zones of the server
Zones == {0 - 5, 0, 5}

\* a court server with no bookings, in any time zone
InitDate ==
    /\ server \in CourtServers
    /\ bookings = <<>>
    /\ clock = 0
    /\ last = [op |-> "none", error |-> "none"]
    /\ inflight = <<>>
    /\ users = seedUsers
    /\ sessions = {}
    /\ now = 0
    /\ tz \in Zones
    /\ conn = Autocommit

NextDate ==
    \/ \E date \in DateReqs, courtId \in CourtIds :
          PostBooking("user_001", courtId, date, Time(9, 0), Time(10, 0))
    \/ \E date \in DateReqs, courtId \in CourtIds :
          PostBookingV1("user_001", courtId, date, Time(9, 0), Time(10, 0))
    \/ \E date \in DateReqs, courtId \in CourtIds :
          PostBookingSql("user_001", courtId, date, Time(9, 0), Time(10, 0))

SpecDate == InitDate /\ [][NextDate]_vars

\* data.bookings of initializeData
seedBookings ==
    << [id |-> "booking_001", userId |-> "user_001", courtId |-> "court_001",
        date |-> "2026-01-21", startTime |-> Time(9, 0), endTime |-> Time(11, 0),
        status |-> "confirmed", totalPrice |-> 1000],
       [id |-> "booking_002", userId |-> "user_002", courtId |-> "court_002",
        date |-> "2026-01-22", startTime |-> Time(14, 0), endTime |-> Time(16, 0),
        status |-> "pending", totalPrice |-> 600] >>

\* the JSON-file server after initializeData, its registration handlers idle
InitRegister ==
    /\ server = "json"
    /\ bookings = seedBookings
    /\ clock = 0
    /\ last = [op |-> "none", error |-> "none"]
    /\ inflight = [p \in Procs |-> [pc |-> "idle", email |-> "none"]]
    /\ users = seedUsers
    /\ sessions = {}
    /\ now = 0
    /\ tz = 0
    /\ conn = Autocommit

NextRegister ==
    \/ \E p \in Procs, email \in ReqEmails : RegisterCheck(p, email)
    \/ \E p \in Procs : RegisterInsert(p)

SpecRegister == InitRegister /\ [][NextRegister]_vars

\* the JSON-file server after initializeData
InitAuth ==
    /\ server = "json"
    /\ bookings = seedBookings
    /\ clock = 0
    /\ last = [op |-> "none", error |-> "none"]
    /\ Quiet

NextAuth ==
    \/ \E email \in LoginEmails, passwordOk \in BOOLEAN : Login(email, passwordOk)
    \/ \E token \in ReqTokens : Logout(token)
    \/ \E token \in ReqTokens : GetMe(token)
    \/ \E token \in ReqTokens, id \in ReqUserIds : DeleteUser(token, id)
    \/ \E days \in Advances : Tick(days)

SpecAuth == InitAuth /\ [][NextAuth]_vars

\* the accounts of the JSON-file server, of the production server and of
\* the UserManager: registration, login and deletion of users
InitUsers ==
    /\ server \in {"json", "prod", "static"}
    /\ bookings = IF server = "json" THEN seedBookings ELSE <<>>
    /\ clock = 0
    /\ last = [op |-> "none", error |-> "none"]
    /\ inflight = [p \in Procs |-> [pc |-> "idle", email |-> "none"]]
    /\ users = IF server = "json" THEN seedUsers
               ELSE IF server = "prod" THEN prodUsers ELSE defaultAdmin
    /\ sessions = {}
    /\ now = 0
    /\ tz = 0
    /\ conn = Autocommit

NextUsers ==
    \/ \E p \in Procs, email \in ReqEmails : RegisterCheck(p, email)
    \/ \E p \in Procs : RegisterInsert(p)
    \/ \E email \in LoginEmails : Login(email, TRUE)
    \/ \E token \in ReqTokens, id \in DeleteIds : DeleteUser(token, id)
    \/ \E p \in Procs, email \in ReqEmails : RegisterV1Check(p, email)
    \/ \E p \in Procs : RegisterV1Insert(p)
    \/ \E actor \in TokenUserIds, id \in DeleteIds : DeleteUserV1(actor, id)
    \/ \E email \in ReqEmails : UmRegister(email)
    \/ \E userId \in DeleteIds : UmDeleteUser(userId)

SpecUsers == InitUsers /\ [][NextUsers]_vars

\* the JSON-file server with its seeded accounts and no booking: accounts
\* and bookings together, every request behind authenticate
InitIntegrity ==
    /\ server = "json"
    /\ bookings = <<>>
    /\ clock = 0
    /\ last = [op |-> "none", error |-> "none"]
    /\ inflight = [p \in Procs |-> [pc |-> "idle", email |-> "none"]]
    /\ users = seedUsers
    /\ sessions = {}
    /\ now = 0
    /\ tz = 0
    /\ conn = Autocommit

NextIntegrity ==
    \/ \E email \in {"new@example.com"} : RegisterCheck(1, email)
    \/ RegisterInsert(1)
    \/ \E email \in {"admin@basketball.com", "rahul@example.com"} :
          Login(email, TRUE)
    \/ \E token \in ReqTokens, courtId \in ReqCourts, date \in ReqDates :
          PostBookingAs(token, courtId, date, Time(9, 0), Time(11, 0))
    \/ \E token \in ReqTokens, id \in 1..MaxIds :
          PatchBookingAs(token, id, "cancelled")
    \/ \E token \in ReqTokens, id \in ReqUserIds : DeleteUser(token, id)

SpecIntegrity == InitIntegrity /\ [][NextIntegrity]_vars

\* the SQLite server with the seeded users and no session
InitSession ==
    /\ server = "sqlite"
    /\ bookings = <<>>
    /\ clock = 0
    /\ last = [op |-> "none", error |-> "none"]
    /\ Quiet

NextSession ==
    \/ \E email \in LoginEmails, passwordOk \in BOOLEAN : LoginSql(email, passwordOk)
    \/ \E token \in ReqTokens : LogoutSql(token)
    \/ \E token \in ReqTokens : GetMyBookings(token)
    \/ \E hours \in Advances : Tick(hours)

SpecSession == InitSession /\ [][NextSession]_vars

\* the BookingManager with no bookings, the wall clock running
InitExpiry ==
    /\ server = "static"
    /\ bookings = <<>>
    /\ clock = 0
    /\ last = [op |-> "none", error |-> "none"]
    /\ Quiet

NextExpiry ==
    \/ \E userId \in Bookers, month \in ReqMonths :
          BmCreateBooking(userId, "monthly", month, 6)
    \/ \E id \in 1..MaxBookings, transactionId \in ReqTransactions :
          confirmPayment(id, transactionId)
    \/ \E id \in 1..MaxBookings : adminConfirmBooking(id)
    \/ \E id \in 1..MaxBookings : cancelBooking(id)
    \/ getAllBookings
    \/ \E days \in Advances : Tick(days)

SpecExpiry == InitExpiry /\ [][NextExpiry]_vars

----------------------------------------------------------------------------
(* Vocabulary of the properties *)

\* a non-terminal booking
Active(b) == b.status \in {"pending", "confirmed"}

\* a terminal booking
Terminal(b) == b.status \in {"cancelled", "expired"}

\* the hours of the half-open range [startTime, endTime)
HoursOf(startTime, endTime) == HourOf(startTime)..(HourOf(endTime) - 1)

\* two half-open ranges share an hour
RangesOverlap(s1, e1, s2, e2) == HoursOf(s1, e1) \cap HoursOf(s2, e2) # {}

\* a response that accepts a create request
Accepted(resp) == resp.code \in {200, 201}

\* a response that rejects a create request because the range is taken
ConflictError(resp) ==
    resp.error \in {"Requested slot is not available",
                    "Requested slots are not available",
                    "Court already booked for this time slot"}

----------------------------------------------------------------------------
(* C1 *)

\* C1: in the JSON-file server, any two distinct pending or confirmed
\* bookings of the same court and date have non-overlapping ranges.
C1_NoOverlap ==
    server = "json" =>
        \A i, j \in 1..Len(bookings) :
            ( /\ i # j
              /\ Active(bookings[i]) /\ Active(bookings[j])
              /\ bookings[i].courtId = bookings[j].courtId
              /\ bookings[i].date = bookings[j].date )
            => ~RangesOverlap(bookings[i].startTime, bookings[i].endTime,
                              bookings[j].startTime, bookings[j].endTime)

----------------------------------------------------------------------------
(* C2 *)

\* the step handles a create request (the request is recorded in last')
CreateStep == last'.op = "create" /\ vars' # vars

\* the create request of the step overlaps a pending or confirmed booking
\* of its court and date
RequestOverlapsActive ==
    \E i \in 1..Len(bookings) :
        /\ Active(bookings[i])
        /\ bookings[i].courtId = last'.courtId
        /\ bookings[i].date = last'.date
        /\ RangesOverlap(last'.startTime, last'.endTime,
                         bookings[i].startTime, bookings[i].endTime)

----------------------------------------------------------------------------
(* C3 *)

\* some pending or confirmed booking of (courtId, date) has
\* startTime <= hour < endTime
HourTaken(courtId, date, hour) ==
    \E i \in 1..Len(bookings) :
        /\ Active(bookings[i])
        /\ bookings[i].courtId = courtId
        /\ bookings[i].date = date
        /\ hour \in HoursOf(bookings[i].startTime, bookings[i].endTime)

\* C3: for every court and date, an hour slot from 06:00 to 21:00 is in the
\* list of getAvailableSlots exactly when no pending or confirmed booking
\* covers it; cancelled and expired bookings never remove a slot.
C3_FreeSlotsExact ==
    server \in {"json", "prod"} =>
        \A courtId \in CourtIds, date \in ReqDates, hour \in 6..21 :
            TimeSlot(hour) \in Elems(getAvailableSlots(courtId, date))
                <=> ~HourTaken(courtId, date, hour)

----------------------------------------------------------------------------
(* C4 *)

\* the requests inside the operating window, start < end
WindowRanges ==
    {r \in ReqRanges : ~invalidTimeRange(HourOf(r[1]), HourOf(r[2]))}

\* some non-cancelled, non-expired booking has
\* existing.start < requested.end AND requested.start < existing.end
IntervalTest(courtId, date, startTime, endTime) ==
    \E i \in 1..Len(bookings) :
        /\ bookings[i].courtId = courtId
        /\ bookings[i].date = date
        /\ bookings[i].status \notin {"cancelled", "expired"}
        /\ HourOf(bookings[i].startTime) < HourOf(endTime)
        /\ HourOf(startTime) < HourOf(bookings[i].endTime)

\* C4: for every request inside the operating window and every stored set
\* of bookings, the slot-enumeration check accepts exactly when the
\* half-open interval test finds no conflict.
C4_SlotCheckEqualsIntervalTest ==
    server \in CourtServers =>
        \A courtId \in CourtIds, date \in ReqDates, r \in WindowRanges :
            isSlotAvailable(getAvailableSlots(courtId, date), r[1], r[2])
                <=> ~IntervalTest(courtId, date, r[1], r[2])

----------------------------------------------------------------------------
(* C5 *)

\* the create request of the step is a proper range that begins where a
\* pending or confirmed booking of its court and date ends, or ends where
\* one begins
RequestAdjacentToActive ==
    /\ HourOf(last'.startTime) < HourOf(last'.endTime)
    /\ \E i \in 1..Len(bookings) :
          /\ Active(bookings[i])
          /\ bookings[i].courtId = last'.courtId
          /\ bookings[i].date = last'.date
          /\ HourOf(bookings[i].startTime) < HourOf(bookings[i].endTime)
          /\ \/ bookings[i].endTime = last'.startTime
             \/ bookings[i].startTime = last'.endTime

\* the create request of the step overlaps no stored booking of its court
\* and date, whatever the booking's status
RequestOverlapsNothing ==
    \A i \in 1..Len(bookings) :
        ( /\ bookings[i].courtId = last'.courtId
          /\ bookings[i].date = last'.date )
        => ~RangesOverlap(last'.startTime, last'.endTime,
                          bookings[i].startTime, bookings[i].endTime)

\* C5: in the JSON-file server and the SQLite server, a create request
\* adjacent to a pending or confirmed booking of the same court and date,
\* and overlapping nothing else, is accepted.
C5_AdjacentAccepted ==
    [][ ( /\ server \in {"json", "sqlite"}
          /\ CreateStep
          /\ RequestAdjacentToActive
          /\ RequestOverlapsNothing )
        => Accepted(last')
      ]_vars

----------------------------------------------------------------------------
(* C6 *)

\* the create request of the step repeats the court, date and range of a
\* cancelled booking
RequestRepeatsCancelled ==
    \E i \in 1..Len(bookings) :
        /\ bookings[i].status = "cancelled"
        /\ bookings[i].courtId = last'.courtId
        /\ bookings[i].date = last'.date
        /\ bookings[i].startTime = last'.startTime
        /\ bookings[i].endTime = last'.endTime

\* C6: in the JSON-file server and the SQLite server, a create request for
\* the court, date and range of a cancelled booking succeeds when no pending
\* or confirmed booking overlaps that range.
C6_FreedByCancellation ==
    [][ ( /\ server \in {"json", "sqlite"}
          /\ CreateStep
          /\ RequestRepeatsCancelled
          /\ ~RequestOverlapsActive )
        => Accepted(last')
      ]_vars

----------------------------------------------------------------------------
(* C7 *)

\* the list holds hour starts of [06:00, 22:00) only, in ascending order
InWindowAscending(slots) ==
    /\ \A k \in 1..Len(slots) : \E hour \in 6..21 : slots[k] = TimeSlot(hour)
    /\ \A k \in 1..(Len(slots) - 1) : StrLess(slots[k], slots[k + 1])

\* C7: the free-slot list holds only hour starts of [06:00, 22:00), in
\* ascending order, and no stored booking starts at 22:00 or later or ends
\* after 22:00.
C7_WindowHalfOpen ==
    server \in {"json", "prod"} =>
        /\ \A courtId \in CourtIds, date \in ReqDates :
              InWindowAscending(getAvailableSlots(courtId, date))
        /\ \A i \in 1..Len(bookings) :
              /\ HourOf(bookings[i].startTime) < 22
              /\ HourOf(bookings[i].endTime) <= 22

----------------------------------------------------------------------------
(* C8, C9, C10 *)

\* the response reports success
Succeeded(resp) ==
    IF "code" \in DOMAIN resp THEN resp.code \in {200, 201} ELSE resp.success

\* the step handles a cancel request: PATCH /api/bookings/:id with
\* status=cancelled, DELETE /api/v1/bookings/:id or cancelBooking
CancelStep ==
    /\ vars' # vars
    /\ \/ server = "json" /\ last'.op = "patch" /\ last'.status = "cancelled"
       \/ server = "prod" /\ last'.op = "cancel"
       \/ server = "static" /\ last'.op = "cancel"

\* the booking named by the request of the step exists and has the status
TargetHasStatus(statuses) ==
    /\ FindIndex(last'.id) # 0
    /\ bookings[FindIndex(last'.id)].status \in statuses

\* C8: cancelling a booking that is already cancelled fails and changes no
\* stored state.
C8_CancelCancelledFails ==
    [][ (CancelStep /\ TargetHasStatus({"cancelled"}))
        => (~Succeeded(last') /\ bookings' = bookings)
      ]_vars

\* C9: once a booking is cancelled or expired, no operation changes its
\* status again.
C9_TerminalPermanent ==
    [][ \A i \in 1..Len(bookings) :
            Terminal(bookings[i])
            => ( /\ i <= Len(bookings')
                 /\ bookings'[i].id = bookings[i].id
                 /\ bookings'[i].status = bookings[i].status )
      ]_vars

\* the step handles a confirm request: confirmPayment or adminConfirmBooking
\* of the BookingManager, or a status update to confirmed that reaches
\* Database.updateBookingStatus
ConfirmStep ==
    /\ vars' # vars
    /\ \/ server = "static" /\ last'.op = "confirm"
       \/ server = "sqlite" /\ last'.op = "patch" /\ last'.status = "confirmed"
                            /\ last'.code # 403

\* C10: a confirm on a booking that is not pending fails and leaves the
\* bookings unchanged, a confirm on an unknown id fails with not-found, and
\* a confirmed booking only ever becomes cancelled.
C10_ConfirmOnlyFromPending ==
    [][ /\ (ConfirmStep /\ TargetHasStatus({"confirmed", "cancelled", "expired"}))
           => (~Succeeded(last') /\ bookings' = bookings)
        /\ (ConfirmStep /\ FindIndex(last'.id) = 0)
           => (last'.error = "Booking not found" /\ bookings' = bookings)
        /\ server \in {"static", "sqlite"}
           => \A i \in 1..Len(bookings) :
                  bookings[i].status = "confirmed"
                  => bookings'[i].status \in {"confirmed", "cancelled"}
      ]_vars

----------------------------------------------------------------------------
(* C11 *)

\* the booking of handler p is stored with status pending or confirmed
Stored(p) ==
    \E i \in 1..Len(bookings) :
        bookings[i].id = inflight[p].id /\ Active(bookings[i])

\* C11: in the SQLite server, of two concurrent create requests for the same
\* court and date whose ranges overlap, at most one booking ends up stored
\* with status pending or confirmed, whatever the interleaving.
C11_RaceCaught ==
    server = "sqlite" =>
        \A p, q \in DOMAIN inflight :
            ( /\ p # q
              /\ inflight[p].courtId = inflight[q].courtId
              /\ inflight[p].date = inflight[q].date
              /\ RangesOverlap(inflight[p].startTime, inflight[p].endTime,
                               inflight[q].startTime, inflight[q].endTime) )
            => ~(Stored(p) /\ Stored(q))

----------------------------------------------------------------------------
(* C12 *)

\* the step is the INSERT of handler p and the uniqueness constraint
\* rejects it
InsertRejected(p) ==
    /\ inflight[p].pc = "insert"
    /\ inflight'[p].pc = "done"
    /\ UniqueConstraintFails(inflight[p].courtId, inflight[p].date,
                             inflight[p].startTime)

\* C12: when the uniqueness constraint rejects the insert of a create
\* request, the SQLite server answers with the conflict error of the overlap
\* rejection, not a generic failure, and stores no booking for the request.
C12_ConstraintIsConflict ==
    [][ \A p \in DOMAIN inflight :
            (server = "sqlite" /\ InsertRejected(p))
            => ( /\ ConflictError(last')
                 /\ inflight'[p].code = 409
                 /\ bookings' = bookings )
      ]_vars

----------------------------------------------------------------------------
(* C13 *)

\* C13: no two stored users share an email, whatever the interleaving of
\* the registration requests.
C13_EmailUnique ==
    \A i, j \in 1..Len(users) :
        users[i].email = users[j].email => i = j

----------------------------------------------------------------------------
(* C14 *)

\* the time is on the hour
HourAligned(time) == SubSeq(time, 4, 5) = <<0, 0>>

\* an hour-aligned range inside the operating window, start < end
ValidRange(startTime, endTime) ==
    /\ HourAligned(startTime) /\ HourAligned(endTime)
    /\ ~invalidTimeRange(HourOf(startTime), HourOf(endTime))

\* C14: every stored booking with a valid hour-aligned range start < end
\* has total price (end hour - start hour) * hourly rate of its court, and
\* every stored booking has a strictly positive price.
C14_PriceFormula ==
    server \in CourtServers =>
        \A i \in 1..Len(bookings) :
            /\ ValidRange(bookings[i].startTime, bookings[i].endTime)
               => bookings[i].totalPrice =
                      (HourOf(bookings[i].endTime) - HourOf(bookings[i].startTime))
                          * courts[bookings[i].courtId]
            /\ bookings[i].totalPrice > 0

----------------------------------------------------------------------------
(* C15 *)

\* a response that rejects a request as invalid
ValidationError(resp) ==
    resp.code = 400 /\ ~ConflictError(resp)

\* C15: a create request with startTime >= endTime, a time outside the
\* operating window or a time that is not hour-aligned is rejected with a
\* validation error and stores nothing.
C15_InvalidRangeRejected ==
    [][ ( /\ server \in CourtServers
          /\ CreateStep
          /\ last'.courtId \in CourtIds
          /\ ~ValidRange(last'.startTime, last'.endTime) )
        => (ValidationError(last') /\ bookings' = bookings)
      ]_vars

----------------------------------------------------------------------------
(* C16 *)

\* C16: a create request for a date before the current calendar day is
\* rejected with a validation error and stores nothing; a request for the
\* current day is not rejected on date grounds.
C16_PastDateRejected ==
    [][ (server \in CourtServers /\ CreateStep)
        => /\ DayNumber[last'.date] < Today
              => (ValidationError(last') /\ bookings' = bookings)
           /\ DayNumber[last'.date] = Today
              => last'.error # "Cannot book for past dates"
      ]_vars

----------------------------------------------------------------------------
(* C17 *)

\* C17: every booking stored by a successful create has status pending at
\* the moment it is stored; no create path stores a confirmed booking.
C17_CreatedPending ==
    [][ Len(bookings') > Len(bookings)
        => bookings'[Len(bookings')].status = "pending"
      ]_vars

----------------------------------------------------------------------------
(* C18 *)

\* the instant a session expires: days in the JSON-file server, hours in the
\* SQLite server
ExpiryOf(s) ==
    IF server = "json" THEN parseInt(s.expiresAt)
    ELSE parseInt(SubSeq(s.expiresAt, 1, 2)) * 24
             + parseInt(SubSeq(s.expiresAt, 4, 5))

\* the session has not been revoked by logout
NotRevoked(s) == IF server = "json" THEN TRUE ELSE s.is_active

\* a session with the token exists, is not revoked and has not expired
TokenValid(token) ==
    \E s \in sessions :
        s.token = token /\ NotRevoked(s) /\ now < ExpiryOf(s)

\* the step handles a request to a protected route
ProtectedStep == last' # last /\ last'.op \in {"me", "my"}

\* C18: a request to a protected route passes authentication exactly when
\* a session with its token exists, has not been revoked by logout and the
\* current time is strictly before its expiry; a token that has been logged
\* out is never valid again.
C18_TokenValidity ==
    [][ /\ ProtectedStep => (last'.handler <=> TokenValid(last'.token))
        /\ \A token \in 1..clock :
              ~TokenValid(token) => ~TokenValid(token)'
      ]_vars

----------------------------------------------------------------------------
(* C19 *)

\* the user a session belongs to is no longer stored
OwnerDeleted(token) ==
    \E s \in sessions : s.token = token /\ FindUserIndex(s.userId) = 0

\* C19: after an admin has deleted a user, no request carrying a session
\* token of that user passes authentication or reaches a protected handler.
C19_DeletedUserLockedOut ==
    [][ (server = "json" /\ ProtectedStep /\ OwnerDeleted(last'.token))
        => ~last'.handler
      ]_vars

----------------------------------------------------------------------------
(* C20 *)

\* the actor is neither the owner of the booking nor an admin
Stranger(booking, actor) ==
    actor # booking.userId /\ role[actor] # "admin"

\* the step handles the status update or the cancel request recorded in
\* last', sent by the actor; the status of an update is one the server's
\* validator accepts
UpdateBy(actor) ==
    \/ /\ last'.op = "patch"
       /\ \/ PatchBooking(actor, last'.id, last'.status)
          \/ /\ last'.status \in StatusesV1
             /\ PatchBookingV1(actor, last'.id, last'.status)
          \/ PatchBookingSql(actor, last'.id, last'.status)
    \/ /\ last'.op = "cancel"
       /\ \/ DeleteBookingV1(actor, last'.id)
          \/ DeleteBookingLocal(actor, last'.id)

----------------------------------------------------------------------------
(* C21 *)

\* the booking is pending and its expiry timestamp has passed at time t
Overdue(b, t) == b.status = "pending" /\ t > parseInt(b.expiresAt)

\* C21: after a read of the bookings no pending booking is past its expiry
\* timestamp, a confirm of a pending booking past its expiry timestamp does
\* not succeed, and a confirmed booking never becomes expired.
C21_ExpiredOnRead ==
    [][ /\ (last' # last /\ last'.op = "read")
           => \A i \in 1..Len(bookings') : ~Overdue(bookings'[i], now')
        /\ ( /\ last' # last /\ last'.op = "confirm"
             /\ FindIndex(last'.id) # 0
             /\ Overdue(bookings[FindIndex(last'.id)], now) )
           => ~Succeeded(last')
        /\ \A i \in 1..Len(bookings) : \A j \in 1..Len(bookings') :
              ( /\ bookings[i].id = bookings'[j].id
                /\ bookings[i].status = "confirmed" )
              => bookings'[j].status # "expired"
      ]_vars

----------------------------------------------------------------------------
(* C22 *)

\* CONFIG.MAX_PLAYERS_PER_MONTH
MAX_PLAYERS_PER_MONTH == 10

\* confirmedBookings.reduce((sum, b) => sum + b.players, 0) over the
\* bookings with b.month === month && b.status === 'confirmed'
RECURSIVE bookedPlayers(_, _)
bookedPlayers(list, month) ==
    IF list = <<>> THEN 0
    ELSE (IF Head(list).month = month /\ Head(list).status = "confirmed"
          THEN Head(list).players ELSE 0)
         + bookedPlayers(Tail(list), month)

\* BookingManager.getAvailableSlots(month)
BmGetAvailableSlots(month) ==
    IF MAX_PLAYERS_PER_MONTH - bookedPlayers(bookings, month) > 0
    THEN MAX_PLAYERS_PER_MONTH - bookedPlayers(bookings, month)
    ELSE 0

\* C22: in the localStorage variant the players of the confirmed bookings
\* of any one month never add up to more than MAX_PLAYERS_PER_MONTH.
C22_MonthlyCapacity ==
    server = "static" =>
        \A month \in ReqMonths :
            bookedPlayers(bookings, month) <= MAX_PLAYERS_PER_MONTH

----------------------------------------------------------------------------
(* C23 *)

\* C23: in the local in-memory server no two confirmed bookings of one
\* court and one booking_date have overlapping [start_time, end_time).
C23_LocalNoOverlap ==
    server = "local" =>
        \A i, j \in 1..Len(bookings) :
            ( /\ i # j
              /\ bookings[i].status = "confirmed"
              /\ bookings[j].status = "confirmed"
              /\ bookings[i].courtId = bookings[j].courtId
              /\ bookings[i].date = bookings[j].date )
            => ~RangesOverlap(bookings[i].startTime, bookings[i].endTime,
                              bookings[j].startTime, bookings[j].endTime)

----------------------------------------------------------------------------
(* C24 *)

\* C24: once the promise of Database.transaction has rejected, no row the
\* callback inserted is in the database; once it has resolved, every row
\* the callback inserted is committed.
C24_TransactionAtomic ==
    \A p \in TxProcs :
        /\ inflight[p].pc = "rejected"
           => inflight[p].written \cap conn.rows = {}
        /\ inflight[p].pc = "resolved"
           => inflight[p].written \subseteq Committed

\* one transaction was rolled back after an insert, another one committed
C24_Witness ==
    \E p, q \in TxProcs :
        /\ inflight[p].pc = "rejected" /\ inflight[p].written # {}
        /\ inflight[q].pc = "resolved" /\ inflight[q].written # {}

----------------------------------------------------------------------------
(* C30 *)

\* C30: a row inserted by an operation outside the transaction, once its
\* db.run has resolved, is committed on its own (it is not part of an open
\* transaction) and stays in the database whatever the transaction does.
C30_TransactionIsolated ==
    inflight[Writer].pc = "resolved"
        => /\ inflight[Writer].written \subseteq conn.rows
           /\ inflight[Writer].written \subseteq Committed

----------------------------------------------------------------------------
(* C25 *)

\* the request answered last named an existing account
LoginOf(i) ==
    /\ last' # last
    /\ last'.op = "login"
    /\ i = FindUserByEmail(last'.email)
    /\ i # 0

\* the step locks account i for 30 minutes from now
Locks(i) ==
    /\ users'[i].locked_until # users[i].locked_until
    /\ users'[i].locked_until = toISOString(now + LOCK_HALF_HOURS)

\* C25: in the SQLite server a failed password attempt locks the account
\* for 30 minutes exactly when it is at least the fifth consecutive one; a
\* login request that finds the lock in the future is rejected with no
\* session created; a successful login resets the counter to 0.
C25_Lockout ==
    [][ \A i \in 1..Len(users) :
          /\ (LoginOf(i) /\ last'.code = 401)
             => (Locks(i) <=> users'[i].login_attempts >= 5)
          /\ (LoginOf(i) /\ isLocked(users[i]) /\ inflight' = inflight)
             => (last'.code = 423 /\ sessions' = sessions)
          /\ (LoginOf(i) /\ last'.code = 200)
             => users'[i].login_attempts = 0
      ]_vars

----------------------------------------------------------------------------
(* C26 *)

\* the (court, date) the request of the step is about: that of the create
\* request, or that of the booking a status update names
TargetOf(resp) ==
    IF resp.op = "create" THEN <<resp.courtId, resp.date>>
    ELSE IF FindIndex(resp.id) # 0
    THEN <<bookings[FindIndex(resp.id)].courtId,
           bookings[FindIndex(resp.id)].date>>
    ELSE <<"none", "none">>

\* C26: in the JSON-file server a create or a status update (cancel
\* included) about (court A, date D) leaves the free-slot list of every
\* other (court, date) as it was, and every other stored booking as it was.
C26_FrameOtherSlots ==
    [][ ( /\ server = "json"
          /\ bookings' # bookings
          /\ last'.op \in {"create", "patch"} )
        => /\ \A c \in CourtIds, d \in FrameDates :
                <<c, d>> # TargetOf(last')
                => getAvailableSlots(c, d)' = getAvailableSlots(c, d)
           /\ \A i \in 1..Len(bookings) :
                \/ last'.op = "patch" /\ bookings[i].id = last'.id
                \/ i <= Len(bookings') /\ bookings'[i] = bookings[i]
      ]_vars

\* a booking was cancelled while another (court, date) holds a booking
C26_Witness ==
    /\ server = "json"
    /\ last.op = "patch" /\ last.code = 200 /\ last.status = "cancelled"
    /\ \E i, j \in 1..Len(bookings) :
          /\ bookings[i].id = last.id
          /\ bookings[i].status = "cancelled"
          /\ <<bookings[j].courtId, bookings[j].date>>
                 # <<bookings[i].courtId, bookings[i].date>>
          /\ bookings[j].status # "cancelled"

----------------------------------------------------------------------------
(* C27 *)

\* the requests of handlers p and q name one court and one date and their
\* ranges share an hour
RequestsOverlap(p, q) ==
    /\ p # q
    /\ inflight[p].courtId = inflight[q].courtId
    /\ inflight[p].date = inflight[q].date
    /\ RangesOverlap(inflight[p].startTime, inflight[p].endTime,
                     inflight[q].startTime, inflight[q].endTime)

----------------------------------------------------------------------------
(* C28 *)

\* the users with role admin
Admins(list) == {list[i].id : i \in {k \in 1..Len(list) : list[k].role = "admin"}}

\* C28: in the JSON-file server, the production server and the UserManager
\* a delete-user request that names an admin fails and leaves users and
\* bookings unchanged; no step removes an admin, and an admin always exists.
C28_AdminsKept ==
    [][ /\ ( /\ last' # last
             /\ last'.op = "deleteUser"
             /\ last'.id \in Admins(users) )
           => (~Succeeded(last') /\ users' = users /\ bookings' = bookings)
        /\ Admins(users) \subseteq Admins(users')
        /\ Admins(users') # {}
      ]_vars

\* the production server has refused to delete an admin while a registered
\* user exists
C28_Witness ==
    /\ server = "prod"
    /\ last.op = "deleteUser"
    /\ last.id \in Admins(users)
    /\ last.code = 400
    /\ Len(users) > 1

----------------------------------------------------------------------------
(* C29 *)

\* the ids of the stored users
UserIds == {users[i].id : i \in 1..Len(users)}

\* C29: in the JSON-file server every stored booking names an existing
\* user and an existing court, and a delete-user step that succeeds leaves
\* no booking of the deleted user.
C29_ReferencesExist ==
    [][ /\ \A i \in 1..Len(bookings') :
              /\ bookings'[i].userId \in {users'[k].id : k \in 1..Len(users')}
              /\ bookings'[i].courtId \in CourtIds
        /\ (last' # last /\ last'.op = "deleteUser" /\ last'.code = 200)
           => \A i \in 1..Len(bookings') : bookings'[i].userId # last'.id
      ]_vars

\* a seeded user was deleted with nobody registered: the third identifier
\* issued, after those of two sessions, was that of the user's booking
C29_Witness ==
    /\ server = "json"
    /\ last.op = "deleteUser" /\ last.code = 200
    /\ last.id \notin UserIds
    /\ Len(users) = Len(seedUsers) - 1
    /\ Cardinality(sessions) = 2
    /\ clock = 3
    /\ bookings = <<>>

====
